---- MODULE Spec2Model ----
(***************************************************************************)
(* Transaction pipeline (TransactionMonitor, src/src/server.js) and        *)
(* validation agent (AIValidationAgent, src/unnamed/part_000) of the       *)
(* rules validator, as state machines over the Node.js event loop.         *)
(*                                                                         *)
(* Event-loop discipline: a macrotask (an HTTP request, a timer, a         *)
(* setImmediate callback, a signal handler) runs only while no             *)
(* continuation of the previous one is pending; the continuations of an    *)
(* `await` on an already settled promise are microtasks and run before     *)
(* the next macrotask.  `pc` and `awaiting` hold the pipeline's pending    *)
(* continuations.                                                          *)
(***************************************************************************)
EXTENDS Integers, Sequences, FiniteSets, TLC

(* ------------------------------ bounds -------------------------------- *)

\* Number of monitorTransaction calls that are accepted in one behaviour.
MaxTx == 2

\* Number of live processLoop timer chains kept in one behaviour.
MaxLoopTimers == 2

(* ------------------------- program constants --------------------------- *)

DefaultBatchSize == 10
DefaultMaxRetries == 3
TransactionHistoryCap == 1000

(* ----------------------------- JS values ------------------------------- *)

Num(n) == [t |-> "number", n |-> n]
NaN == [t |-> "number", nan |-> TRUE]
Infinity == [t |-> "number", inf |-> 1]
NegInfinity == [t |-> "number", inf |-> 0 - 1]
Str(s) == [t |-> "string", s |-> s]
Bool(b) == [t |-> "boolean", b |-> b]
Null == [t |-> "null"]
Undefined == [t |-> "undefined"]
Obj(f) == [t |-> "object", fields |-> f]
Arr(items) == [t |-> "array", items |-> items]

\* typeof v
TypeOf(v) == IF v.t \in {"null", "array"} THEN "object" ELSE v.t

IsNaN(v) == v.t = "number" /\ "nan" \in DOMAIN v
IsFinite(v) == v.t = "number" /\ "n" \in DOMAIN v
IsInfinite(v) == v.t = "number" /\ "inf" \in DOMAIN v

\* !v
Falsy(v) ==
    \/ v.t \in {"null", "undefined"}
    \/ IsNaN(v)
    \/ IsFinite(v) /\ v.n = 0
    \/ v.t = "string" /\ v.s = ""
    \/ v.t = "boolean" /\ ~v.b

\* field in v, for an object v
HasField(v, field) == field \in DOMAIN v.fields

\* v < 0 for a number v (every comparison with NaN is false)
LessThanZero(v) == (IsFinite(v) /\ v.n < 0) \/ v = NegInfinity

\* The documents a caller submits.
Docs ==
    { Obj([amount |-> Num(15000), userId |-> Str("u1"), type |-> Str("transfer")]),
      Obj([amount |-> Num(0), userId |-> Str("u2"), type |-> Str("transfer")]),
      Obj([amount |-> Num(50), userId |-> Str(""), type |-> Str("transfer")]),
      Obj([amount |-> Num(50), userId |-> Str("u1"), type |-> Num(7)]),
      Obj([amount |-> NaN, userId |-> Str("u1"), type |-> Str("transfer")]),
      Obj([amount |-> Num(-1), userId |-> Str("u1"), type |-> Str("transfer")]),
      Obj([amount |-> Str("50"), userId |-> Str("u1"), type |-> Str("transfer")]),
      Obj([userId |-> Str("u1"), type |-> Str("transfer")]),
      Obj([amount |-> Num(50), type |-> Str("transfer")]),
      Obj([amount |-> Num(50), userId |-> Str("u1")]),
      Obj([amount |-> Num(15000), userId |-> Str("u1"), type |-> Str("transfer"),
           location |-> Obj([country |-> Str("US")])]),
      Obj([amount |-> Num(5000), userId |-> Str("u1"), type |-> Str("transfer"),
           location |-> Obj([country |-> Str("Unknown")])]),
      Obj([amount |-> Num(50), userId |-> Str("u2"), type |-> Str("transfer"),
           user |-> Obj([transactionCount24h |-> Num(25)])]),
      Obj([amount |-> Num(10000), userId |-> Str("u1"), type |-> Str("transfer")]),
      Obj([amount |-> Num(50000), userId |-> Str("u1"), type |-> Str("transfer")]),
      Obj([amount |-> Num(100000), userId |-> Str("u1"), type |-> Str("transfer")]),
      Obj([amount |-> Num(100001), userId |-> Str("u1"), type |-> Str("transfer")]),
      Obj([amount |-> Infinity, userId |-> Str("u1"), type |-> Str("transfer")]),
      Null,
      Str("tx") }

requiredFields == <<"amount", "userId", "type">>

isValidTransaction(transaction) ==
    IF Falsy(transaction) \/ TypeOf(transaction) # "object" THEN FALSE
    ELSE IF \E i \in 1..Len(requiredFields) :
                ~HasField(transaction, requiredFields[i]) THEN FALSE
    ELSE IF TypeOf(transaction.fields.amount) # "number"
            \/ LessThanZero(transaction.fields.amount) THEN FALSE
    ELSE TRUE

(* ------------------------------- state --------------------------------- *)

VARIABLES
    \* TransactionMonitor (src/src/server.js:1033-1056)
    config, isProcessing, transactionQueue, processingQueue, rules,
    transactionHistory, metrics,
    \* the accepted transaction objects, by id: status and retryCount, with
    \* the number of times processTransaction took the object (attempts) and
    \* the number of times a retry timer put it back (requeues)
    tx,
    \* per transaction, the values its status took since it was last pulled
    \* from the queue, starting with the one it was pulled with
    statusLog,
    \* events emitted by the monitor, counted by name; last of started/stopped
    emitted, lastLifecycle,
    \* whether the last monitorTransaction call threw or returned
    lastSubmit,
    \* scheduled callbacks: setImmediate(processNextBatch), retry timers,
    \* setTimeout(processLoop); stop() suspended in its 100 ms poll
    immediates, retryTimers, loopTimers, stopWaiting,
    \* continuation of the running macrotask and the transactions whose
    \* processTransaction awaits handleTransactionError (finally pending)
    pc, awaiting,
    \* AIRulesValidatorServer.websocketClients
    websocketClients,
    \* AIValidationAgent (src/unnamed/part_000:364-378)
    agentConfig, isRunning, validationQueue, activeValidations,
    validationHistory, anomalies, errorRateThreshold,
    \* validations started and not yet settled, by id: the validation
    \* object and where its promise chain stands
    inProgress,
    \* the id of every entry ever pushed to validationHistory, in order
    historyLog,
    \* events emitted by the agent, counted by name
    agentEmitted,
    \* generateValidationId: ids are unique, here consecutive
    valSeq,
    \* setImmediate(processValidationQueue) callbacks; where start() and the
    \* validation loop stand; number of detectAnomalies passes made
    agentImmediates, agentPc, detectPasses,
    \* RuleProcessor (src/src/rules-engine/rule-processor.js) keeps no state:
    \* the call a caller makes of it or of the monitor's summary, and what
    \* the call returned
    engineCall, engineReturned

pipelineVars ==
    <<config, isProcessing, transactionQueue, processingQueue, rules,
      transactionHistory, metrics, tx, statusLog, emitted, lastLifecycle,
      lastSubmit, immediates, retryTimers, loopTimers, stopWaiting, pc,
      awaiting, websocketClients>>

agentVars ==
    <<agentConfig, isRunning, validationQueue, activeValidations,
      validationHistory, anomalies, errorRateThreshold, inProgress,
      historyLog, agentEmitted, valSeq, agentImmediates, agentPc,
      detectPasses>>

engineVars == <<engineCall, engineReturned>>

vars == <<pipelineVars, agentVars, engineVars>>

(* --------------------------- configuration ----------------------------- *)

\* options given to new TransactionMonitor(ruleProcessor, aiValidator, options),
\* with aiValidator: whether a validation agent was passed, and broadcast:
\* whether the monitor is the one of an AIRulesValidatorServer, whose
\* listeners broadcast its events to the WebSocket clients.  The first has
\* the server's flags, the last the default batch size and retry limit.
Configs ==
    { [autoProcessTransactions |-> TRUE, enableRealTimeProcessing |-> TRUE,
       batchSize |-> DefaultBatchSize, maxRetries |-> 1,
       aiValidator |-> TRUE, broadcast |-> TRUE],
      [autoProcessTransactions |-> TRUE, enableRealTimeProcessing |-> FALSE,
       batchSize |-> 1, maxRetries |-> 2,
       aiValidator |-> FALSE, broadcast |-> TRUE],
      [autoProcessTransactions |-> FALSE, enableRealTimeProcessing |-> FALSE,
       batchSize |-> DefaultBatchSize, maxRetries |-> DefaultMaxRetries,
       aiValidator |-> FALSE, broadcast |-> FALSE] }

\* Rule sets: "empty", the one of the constructor; "default", the one of
\* getDefaultRules (three enabled rules whose conditions never raise);
\* "malformed", one holding a null entry, as PUT /api/rules stores it
\* unchecked: RuleProcessor.processTransaction raises on it; and "faulty", two
\* enabled rules, the first with an operator the engine does not know
\* (evaluateRule catches the error into result.error), and a disabled one.
\* The rule sets PUT /api/rules is given:
NewRuleSets == {"default", "malformed"}

\* and, for the monitor with its validation agent, the set whose rule results
\* differ in their error field
FailingRuleSets == {"faulty"}

\* The monitor with a validation agent attached: the server's, and one that
\* retries (auto processing, one transaction per batch, two attempts).
ValidatedConfigs ==
    { [autoProcessTransactions |-> TRUE, enableRealTimeProcessing |-> TRUE,
       batchSize |-> DefaultBatchSize, maxRetries |-> 1,
       aiValidator |-> TRUE, broadcast |-> TRUE],
      [autoProcessTransactions |-> TRUE, enableRealTimeProcessing |-> FALSE,
       batchSize |-> 1, maxRetries |-> 2,
       aiValidator |-> TRUE, broadcast |-> FALSE] }

\* ruleProcessor.processTransaction(this.rules, transaction) throws
EvaluationThrows(r) == r = "malformed"

\* ruleResult.error (as a boolean) of each result of the report, in order
RuleResultErrors(r) ==
    CASE r = "default" -> <<FALSE, FALSE, FALSE>>
      [] r = "faulty" -> <<TRUE, FALSE>>
      [] OTHER -> <<>>

\* The server's transaction_processed / transaction_failed listener throws:
\* broadcastToClients serialises the payload once a client is connected,
\* and result.transaction.result is result itself.
ListenerThrows(clients) == Cardinality(clients) > 0

\* The WebSocket clients that connect
Clients == {"ws1"}

(* ------------------------- validation requests -------------------------- *)

\* What a validator reads of request.data: whether the parts it destructures
\* are there, ruleResult.error, and the number of issues the static analysis
\* of data.rule yields.
RequestData(valid, ruleError, issueCount) ==
    [valid |-> valid, ruleError |-> ruleError, issueCount |-> issueCount]

Request(type, priority, data) ==
    [type |-> type, priority |-> priority, data |-> data]

\* AIValidationAgent.queueValidation on st (the fields validationQueue,
\* valSeq, agentImmediates, agentEmitted), with `active` validations running.
queueValidation(st, validationRequest, active) ==
    LET validation == [ id |-> st.valSeq + 1,
                        type |-> validationRequest.type,
                        priority |-> validationRequest.priority,
                        data |-> validationRequest.data,
                        status |-> "queued" ]
    IN  [st EXCEPT
            !.valSeq = @ + 1,
            !.validationQueue = Append(@, validation),
            !.agentEmitted.validation_queued = @ + 1,
            !.agentImmediates =
                IF validation.priority = "high"
                   /\ Cardinality(active) < agentConfig.maxConcurrentValidations
                THEN @ + 1 ELSE @]

(* ------------------------ pipeline: one transaction --------------------- *)

\* The pipeline's data, as the synchronous code below threads it, with the
\* WebSocket clients the server's listeners find.
PipelineDataWith(clients) ==
    [ clients |-> clients, rules |-> rules,
      transactionQueue |-> transactionQueue, processingQueue |-> processingQueue,
      tx |-> tx, statusLog |-> statusLog,
      transactionHistory |-> transactionHistory, metrics |-> metrics,
      emitted |-> emitted, retryTimers |-> retryTimers, awaiting |-> awaiting,
      validationQueue |-> validationQueue, valSeq |-> valSeq,
      agentImmediates |-> agentImmediates, agentEmitted |-> agentEmitted ]

PipelineData == PipelineDataWith(websocketClients)

SetStatus(st, t, status) ==
    [st EXCEPT !.tx[t].status = status, !.statusLog[t] = Append(@, status)]

\* processTransaction takes the object
Take(st, t) ==
    [st EXCEPT !.tx[t].attempts = @ + 1, !.statusLog[t] = <<st.tx[t].status>>]

\* array.slice(-cap) after a push
PushCapped(history, entry, cap) ==
    LET h == Append(history, entry)
    IN  IF Len(h) > cap THEN SubSeq(h, Len(h) - cap + 1, Len(h)) ELSE h

\* findIndex(t => t.id === id) and splice(index, 1)
RemoveFirst(queue, t) ==
    IF \E i \in 1..Len(queue) : queue[i] = t
    THEN LET i == CHOOSE k \in 1..Len(queue) :
                      queue[k] = t /\ \A j \in 1..(k - 1) : queue[j] # t
         IN  SubSeq(queue, 1, i - 1) \o SubSeq(queue, i + 1, Len(queue))
    ELSE queue

RECURSIVE QueueRuleValidations(_, _, _)
QueueRuleValidations(st, errors, i) ==
    IF i > Len(errors) THEN st
    ELSE QueueRuleValidations(
             queueValidation(st,
                 Request("rule_execution",
                         IF errors[i] THEN "high" ELSE "normal",
                         RequestData(TRUE, errors[i], 0)),
                 activeValidations),
             errors, i + 1)

\* queueForAIValidation with every request at normal priority
queueForAIValidationAllNormal(st, r) ==
    queueValidation(
        QueueRuleValidations(st, [i \in 1..Len(RuleResultErrors(r)) |-> FALSE],
                             1),
        Request("performance", "normal", RequestData(TRUE, FALSE, 0)),
        activeValidations)

queueForAIValidation(st, r) ==
    queueValidation(QueueRuleValidations(st, RuleResultErrors(r), 1),
                    Request("performance", "normal", RequestData(TRUE, FALSE, 0)),
                    activeValidations)

\* handleTransactionError reporting every failure, retried or not
handleTransactionErrorReportsAll(st, t) ==
    LET s1 == SetStatus([st EXCEPT !.tx[t].retryCount = @ + 1], t, "failed")
        s2 == [s1 EXCEPT !.metrics.failedTransactions = @ + 1,
                         !.emitted.transaction_failed = @ + 1]
    IN  IF s1.tx[t].retryCount < config.maxRetries
        THEN [SetStatus(s2, t, "pending") EXCEPT !.retryTimers = @ \cup {t}]
        ELSE s2

handleTransactionErrorNoLimit(st, t) ==
    LET s1 == SetStatus([st EXCEPT !.tx[t].retryCount = @ + 1], t, "failed")
    IN  [SetStatus(s1, t, "pending") EXCEPT !.retryTimers = @ \cup {t}]

handleTransactionError(st, t) ==
    LET s1 == SetStatus([st EXCEPT !.tx[t].retryCount = @ + 1], t, "failed")
    IN  IF s1.tx[t].retryCount < config.maxRetries
        THEN [SetStatus(s1, t, "pending") EXCEPT !.retryTimers = @ \cup {t}]
        ELSE [s1 EXCEPT !.metrics.failedTransactions = @ + 1,
                        !.emitted.transaction_failed = @ + 1]

\* processTransaction up to its first await: to the end on success (the
\* finally block included), to `await this.handleTransactionError` when the
\* evaluation or a later statement of the try block throws.
processTransaction(st, t) ==
    LET s1 == SetStatus(Take(st, t), t, "processing")
    IN  IF EvaluationThrows(st.rules)
        THEN [handleTransactionError(s1, t) EXCEPT !.awaiting = Append(@, t)]
        ELSE LET s2 == IF config.aiValidator
                       THEN queueForAIValidation(SetStatus(s1, t, "completed"),
                                                 st.rules)
                       ELSE SetStatus(s1, t, "completed")
                 s3 == [s2 EXCEPT
                           !.metrics.processedTransactions = @ + 1,
                           !.transactionHistory =
                               PushCapped(@, [transactionId |-> t],
                                          TransactionHistoryCap),
                           !.emitted.transaction_processed = @ + 1]
             IN  IF ListenerThrows(st.clients)
                 THEN [handleTransactionError(s3, t) EXCEPT
                          !.awaiting = Append(@, t)]
                 ELSE [s3 EXCEPT !.processingQueue = RemoveFirst(@, t)]

RECURSIVE ProcessBatch(_, _, _)
ProcessBatch(st, batch, i) ==
    IF i > Len(batch) THEN st
    ELSE ProcessBatch(processTransaction(st, batch[i]), batch, i + 1)

Min(a, b) == IF a < b THEN a ELSE b

\* processNextBatch without the batch size: the whole queue is one batch
processNextBatchWholeQueue(st) ==
    IF Len(st.transactionQueue) = 0 THEN st
    ELSE LET batch == st.transactionQueue
         IN  ProcessBatch(
                 [st EXCEPT
                     !.transactionQueue = <<>>,
                     !.processingQueue = @ \o batch],
                 batch, 1)

\* processNextBatch up to `await Promise.allSettled(...)`
processNextBatch(st) ==
    IF Len(st.transactionQueue) = 0 THEN st
    ELSE LET n == Min(config.batchSize, Len(st.transactionQueue))
             batch == SubSeq(st.transactionQueue, 1, n)
         IN  ProcessBatch(
                 [st EXCEPT
                     !.transactionQueue = SubSeq(@, n + 1, Len(@)),
                     !.processingQueue = @ \o batch],
                 batch, 1)

\* The pipeline's data after the step
Commit(st) ==
    /\ transactionQueue' = st.transactionQueue
    /\ processingQueue' = st.processingQueue
    /\ tx' = st.tx
    /\ statusLog' = st.statusLog
    /\ transactionHistory' = st.transactionHistory
    /\ metrics' = st.metrics
    /\ emitted' = st.emitted
    /\ retryTimers' = st.retryTimers
    /\ awaiting' = st.awaiting
    /\ validationQueue' = st.validationQueue
    /\ valSeq' = st.valSeq
    /\ agentImmediates' = st.agentImmediates
    /\ agentEmitted' = st.agentEmitted

\* No macrotask is running: the event loop takes the next callback.
Idle == pc = "idle" /\ awaiting = <<>>

(* --------------------------- pipeline: actions -------------------------- *)

agentRest ==
    <<agentConfig, isRunning, activeValidations, validationHistory, anomalies,
      errorRateThreshold, inProgress, historyLog, agentPc, detectPasses>>

agentQueueVars == <<validationQueue, valSeq, agentImmediates, agentEmitted>>

pipelineData ==
    <<transactionQueue, processingQueue, tx, statusLog, transactionHistory,
      metrics, emitted, retryTimers, awaiting>>

enhanceTransaction(transaction) ==
    [status |-> "pending", retryCount |-> 0, attempts |-> 0, requeues |-> 0]

MonitorTransactionCountsFirst(d) ==
    /\ Idle
    /\ metrics' = [metrics EXCEPT !.totalTransactions = @ + 1]
    /\ IF ~isValidTransaction(d)
       THEN /\ lastSubmit' = "InvalidTransaction"
            /\ UNCHANGED <<transactionQueue, processingQueue, tx, statusLog,
                           transactionHistory, emitted, retryTimers, awaiting,
                           immediates>>
       ELSE /\ Len(tx) < MaxTx
            /\ tx' = Append(tx, enhanceTransaction(d))
            /\ statusLog' = Append(statusLog, <<"pending">>)
            /\ transactionQueue' = Append(transactionQueue, Len(tx) + 1)
            /\ emitted' = [emitted EXCEPT !.transaction_queued = @ + 1]
            /\ immediates' = IF config.enableRealTimeProcessing
                             THEN immediates + 1 ELSE immediates
            /\ lastSubmit' = "returned"
            /\ UNCHANGED <<processingQueue, transactionHistory, retryTimers,
                           awaiting>>
    /\ UNCHANGED <<config, isProcessing, rules, lastLifecycle, loopTimers,
                   stopWaiting, pc, websocketClients>>
    /\ UNCHANGED <<agentRest, agentQueueVars>>
    /\ UNCHANGED engineVars

\* monitorTransaction(transactionData): throws, or queues and returns the id
MonitorTransaction(d) ==
    /\ Idle
    /\ IF ~isValidTransaction(d)
       THEN /\ lastSubmit' = "InvalidTransaction"
            /\ UNCHANGED <<pipelineData, immediates>>
       ELSE /\ Len(tx) < MaxTx
            /\ tx' = Append(tx, enhanceTransaction(d))
            /\ statusLog' = Append(statusLog, <<"pending">>)
            /\ transactionQueue' = Append(transactionQueue, Len(tx) + 1)
            /\ metrics' = [metrics EXCEPT !.totalTransactions = @ + 1]
            /\ emitted' = [emitted EXCEPT !.transaction_queued = @ + 1]
            /\ immediates' = IF config.enableRealTimeProcessing
                             THEN immediates + 1 ELSE immediates
            /\ lastSubmit' = "returned"
            /\ UNCHANGED <<processingQueue, transactionHistory, retryTimers,
                           awaiting>>
    /\ UNCHANGED <<config, isProcessing, rules, lastLifecycle, loopTimers,
                   stopWaiting, pc, websocketClients>>
    /\ UNCHANGED <<agentRest, agentQueueVars>>
    /\ UNCHANGED engineVars

\* start(): no-op when running; else loads the default rules and, with
\* auto-processing, runs the first iteration of processLoop, which
\* evaluates with the rules just loaded
Start ==
    /\ Idle
    /\ IF isProcessing
       THEN UNCHANGED vars
       ELSE /\ config.autoProcessTransactions => loopTimers < MaxLoopTimers
            /\ isProcessing' = TRUE
            /\ rules' = "default"
            /\ lastLifecycle' = "started"
            /\ IF config.autoProcessTransactions
               THEN /\ Commit(processNextBatch(
                               [PipelineData EXCEPT !.rules = "default"]))
                    /\ pc' = "loop"
               ELSE /\ UNCHANGED <<pipelineData, agentQueueVars, pc>>
            /\ UNCHANGED <<config, lastSubmit, immediates, loopTimers,
                           stopWaiting, websocketClients, agentRest>>
    /\ UNCHANGED engineVars

\* processLoop, called by its timer
LoopTimerFires ==
    /\ Idle
    /\ loopTimers > 0
    /\ loopTimers' = loopTimers - 1
    /\ IF ~isProcessing
       THEN UNCHANGED <<pipelineData, agentQueueVars, pc>>
       ELSE /\ Commit(processNextBatch(PipelineData))
            /\ pc' = "loop"
    /\ UNCHANGED <<config, isProcessing, rules, lastLifecycle, lastSubmit,
                   immediates, stopWaiting, websocketClients, agentRest>>
    /\ UNCHANGED engineVars

\* setImmediate(() => this.processNextBatch()) of monitorTransaction
ImmediateFires ==
    /\ Idle
    /\ immediates > 0
    /\ immediates' = immediates - 1
    /\ Commit(processNextBatch(PipelineData))
    /\ pc' = "immediate"
    /\ UNCHANGED <<config, isProcessing, rules, lastLifecycle, lastSubmit,
                   loopTimers, stopWaiting, websocketClients, agentRest>>
    /\ UNCHANGED engineVars

\* the retry timer pushing the transaction at the tail of the queue
RetryTimerFiresAtTail(t) ==
    /\ Idle
    /\ t \in retryTimers
    /\ retryTimers' = retryTimers \ {t}
    /\ transactionQueue' = Append(transactionQueue, t)
    /\ tx' = [tx EXCEPT ![t].requeues = @ + 1]
    /\ UNCHANGED <<processingQueue, statusLog, transactionHistory, metrics,
                   emitted, awaiting>>
    /\ UNCHANGED <<config, isProcessing, rules, lastLifecycle, lastSubmit,
                   immediates, loopTimers, stopWaiting, pc, websocketClients>>
    /\ UNCHANGED <<agentRest, agentQueueVars>>
    /\ UNCHANGED engineVars

\* the retry timer of handleTransactionError: transactionQueue.unshift
RetryTimerFires(t) ==
    /\ Idle
    /\ t \in retryTimers
    /\ retryTimers' = retryTimers \ {t}
    /\ transactionQueue' = <<t>> \o transactionQueue
    /\ tx' = [tx EXCEPT ![t].requeues = @ + 1]
    /\ UNCHANGED <<processingQueue, statusLog, transactionHistory, metrics,
                   emitted, awaiting>>
    /\ UNCHANGED <<config, isProcessing, rules, lastLifecycle, lastSubmit,
                   immediates, loopTimers, stopWaiting, pc, websocketClients>>
    /\ UNCHANGED <<agentRest, agentQueueVars>>
    /\ UNCHANGED engineVars

\* processTransaction resumes after `await this.handleTransactionError(...)`:
\* its finally block
Finally ==
    /\ awaiting # <<>>
    /\ processingQueue' = RemoveFirst(processingQueue, Head(awaiting))
    /\ awaiting' = Tail(awaiting)
    /\ UNCHANGED <<transactionQueue, tx, statusLog, transactionHistory, metrics,
                   emitted, retryTimers>>
    /\ UNCHANGED <<config, isProcessing, rules, lastLifecycle, lastSubmit,
                   immediates, loopTimers, stopWaiting, pc, websocketClients>>
    /\ UNCHANGED <<agentRest, agentQueueVars>>
    /\ UNCHANGED engineVars

\* processLoop ending without scheduling its next cycle
BatchSettlesEndsLoop ==
    /\ pc \in {"loop", "immediate"}
    /\ awaiting = <<>>
    /\ pc' = "idle"
    /\ UNCHANGED <<pipelineData, config, isProcessing, rules, lastLifecycle,
                   lastSubmit, immediates, loopTimers, stopWaiting,
                   websocketClients>>
    /\ UNCHANGED <<agentRest, agentQueueVars>>
    /\ UNCHANGED engineVars

\* processNextBatch has settled: processLoop schedules its next cycle, the
\* setImmediate callback ends
BatchSettles ==
    /\ pc \in {"loop", "immediate"}
    /\ awaiting = <<>>
    /\ loopTimers' = IF pc = "loop" THEN loopTimers + 1 ELSE loopTimers
    /\ pc' = "idle"
    /\ UNCHANGED <<pipelineData, config, isProcessing, rules, lastLifecycle,
                   lastSubmit, immediates, stopWaiting, websocketClients>>
    /\ UNCHANGED <<agentRest, agentQueueVars>>
    /\ UNCHANGED engineVars

ProcessRemainingOneBatch ==
    IF Len(transactionQueue) > 0 /\ pc = "idle"
    THEN /\ Commit(processNextBatch(PipelineDataWith(websocketClients')))
         /\ pc' = "stop"
         /\ UNCHANGED <<lastLifecycle, stopWaiting>>
    ELSE /\ UNCHANGED <<pipelineData, agentQueueVars>>
         /\ pc' = "idle"
         /\ stopWaiting' = FALSE
         /\ lastLifecycle' = "stopped"

\* processRemainingTransactions from the head of its first loop (the
\* listeners find the clients the step leaves)
ProcessRemaining ==
    IF Len(transactionQueue) > 0
    THEN /\ Commit(processNextBatch(PipelineDataWith(websocketClients')))
         /\ pc' = "stop"
         /\ UNCHANGED <<lastLifecycle, stopWaiting>>
    ELSE /\ UNCHANGED <<pipelineData, agentQueueVars>>
         /\ pc' = "idle"
         /\ IF Len(processingQueue) > 0
            THEN stopWaiting' = TRUE /\ UNCHANGED lastLifecycle
            ELSE stopWaiting' = FALSE /\ lastLifecycle' = "stopped"

\* stop(): no-op when not running; else clears isProcessing and drains.
\* The server calls it from its own stop(), after it has closed and cleared
\* its WebSocket clients.
Stop ==
    /\ Idle
    /\ websocketClients' = IF config.broadcast THEN {} ELSE websocketClients
    /\ IF ~isProcessing
       THEN UNCHANGED <<pipelineData, agentQueueVars, config, isProcessing,
                        rules, lastLifecycle, lastSubmit, immediates,
                        loopTimers, stopWaiting, pc, agentRest>>
       ELSE /\ isProcessing' = FALSE
            /\ ProcessRemaining
            /\ UNCHANGED <<config, rules, lastSubmit, immediates, loopTimers,
                           agentRest>>
    /\ UNCHANGED engineVars

\* stop() resumes: after `await this.processNextBatch()`, or after a 100 ms
\* sleep of its second loop
StopResumes ==
    /\ IF stopWaiting THEN Idle ELSE pc = "stop" /\ awaiting = <<>>
    /\ UNCHANGED websocketClients
    /\ IF stopWaiting
       THEN /\ UNCHANGED <<pipelineData, agentQueueVars, pc>>
            /\ IF Len(processingQueue) > 0
               THEN UNCHANGED <<stopWaiting, lastLifecycle>>
               ELSE stopWaiting' = FALSE /\ lastLifecycle' = "stopped"
       ELSE ProcessRemaining
    /\ UNCHANGED <<config, isProcessing, rules, lastSubmit, immediates,
                   loopTimers, agentRest>>
    /\ UNCHANGED engineVars

\* updateRules emitting the event without storing the new rules
UpdateRulesKeepsOld(newRules) ==
    /\ Idle
    /\ emitted' = [emitted EXCEPT !.rules_updated = newRules]
    /\ UNCHANGED <<transactionQueue, processingQueue, tx, statusLog,
                   transactionHistory, metrics, retryTimers, awaiting>>
    /\ UNCHANGED <<rules, config, isProcessing, lastLifecycle,
                   lastSubmit, immediates, loopTimers, stopWaiting, pc,
                   websocketClients>>
    /\ UNCHANGED <<agentRest, agentQueueVars>>
    /\ UNCHANGED engineVars

\* updateRules(newRules), from PUT /api/rules; emitted.rules_updated holds
\* the payload of the last rules_updated event
UpdateRules(newRules) ==
    /\ Idle
    /\ rules' = newRules
    /\ emitted' = [emitted EXCEPT !.rules_updated = newRules]
    /\ UNCHANGED <<transactionQueue, processingQueue, tx, statusLog,
                   transactionHistory, metrics, retryTimers, awaiting>>
    /\ UNCHANGED <<config, isProcessing, lastLifecycle,
                   lastSubmit, immediates, loopTimers, stopWaiting, pc,
                   websocketClients>>
    /\ UNCHANGED <<agentRest, agentQueueVars>>
    /\ UNCHANGED engineVars

\* a WebSocket client connects: the server listens once
\* transactionMonitor.start() has returned
ClientConnects(ws) ==
    /\ Idle
    /\ config.broadcast
    /\ lastLifecycle # "none"
    /\ ws \notin websocketClients
    /\ websocketClients' = websocketClients \cup {ws}
    /\ UNCHANGED <<pipelineData, config, isProcessing, rules, lastLifecycle,
                   lastSubmit, immediates, loopTimers, stopWaiting, pc>>
    /\ UNCHANGED <<agentRest, agentQueueVars>>
    /\ UNCHANGED engineVars

\* a WebSocket client closes
ClientCloses(ws) ==
    /\ Idle
    /\ ws \in websocketClients
    /\ websocketClients' = websocketClients \ {ws}
    /\ UNCHANGED <<pipelineData, config, isProcessing, rules, lastLifecycle,
                   lastSubmit, immediates, loopTimers, stopWaiting, pc>>
    /\ UNCHANGED <<agentRest, agentQueueVars>>
    /\ UNCHANGED engineVars

(* ------------------------- validation agent: data ----------------------- *)

\* Number of queueValidation calls made in one behaviour.
MaxValidations == 3

\* Number of runs of the validation loop (runScheduledValidations) in one
\* behaviour.
MaxTicks == 2

DefaultMaxConcurrentValidations == 3
ValidationHistoryCap == 1000
AnomalyWindow == 100
AnomalyMinimum == 10
SaveEvery == 10
PassingScore == 70
IssuePenalty == 10

\* validationPatterns.performance.errorRateThreshold, 0.05, as a fraction
DefaultErrorRateThreshold == [num |-> 5, den |-> 100]

\* options.maxConcurrentValidations given to new AIValidationAgent(options)
AgentConfigs == { [maxConcurrentValidations |-> 2] }

\* The requests queueValidation is given: the one of POST /api/validate-rule
\* (its validation passes), a rule execution that reports an error (its
\* validation does not pass), and a request of a type processValidation
\* does not know (its validation throws).
ValidationRequests ==
    { Request("rule_logic", "high", RequestData(TRUE, FALSE, 0)),
      Request("rule_execution", "high", RequestData(TRUE, TRUE, 0)),
      Request("report", "normal", RequestData(TRUE, FALSE, 0)) }

\* The cases of the switch of processValidation
KnownValidationTypes ==
    {"rule_execution", "rule_logic", "performance", "security", "data_integrity"}

validationOutcomeUnknownPasses(validation) ==
    CASE validation.type = "rule_execution" ->
             IF ~validation.data.valid THEN "threw"
             ELSE IF validation.data.ruleError THEN "failed" ELSE "passed"
      [] validation.type = "rule_logic" ->
             IF ~validation.data.valid THEN "threw"
             ELSE IF 100 - validation.data.issueCount * IssuePenalty
                        >= PassingScore
                  THEN "passed" ELSE "failed"
      [] OTHER -> "passed"

\* processValidation up to its return or throw: "threw", or the `passed` of
\* the validator's result
validationOutcome(validation) ==
    CASE validation.type = "rule_execution" ->
             IF ~validation.data.valid THEN "threw"
             ELSE IF validation.data.ruleError THEN "failed" ELSE "passed"
      [] validation.type = "rule_logic" ->
             IF ~validation.data.valid THEN "threw"
             ELSE IF 100 - validation.data.issueCount * IssuePenalty
                        >= PassingScore
                  THEN "passed" ELSE "failed"
      [] validation.type \in {"performance", "security", "data_integrity"} ->
             "passed"
      [] OTHER -> "threw"

\* The history entry handleValidationResult pushes: {...validation, result}
CompletedEntry(id, type, passed) ==
    [id |-> id, type |-> type, status |-> "completed",
     result |-> [passed |-> passed]]

\* The history entry handleValidationError pushes: the validation itself
FailedEntry(id, type) ==
    [id |-> id, type |-> type, status |-> "failed", error |-> TRUE]

\* !v.passed of a history entry v (undefined is falsy)
NotPassed(v) == IF "passed" \in DOMAIN v THEN ~v.passed ELSE TRUE

\* array.slice(-n)
LastN(seq, n) ==
    IF Len(seq) > n THEN SubSeq(seq, Len(seq) - n + 1, Len(seq)) ELSE seq

\* array.filter(v => !v.passed).length
RECURSIVE CountNotPassed(_, _)
CountNotPassed(seq, i) ==
    IF i > Len(seq) THEN 0
    ELSE (IF NotPassed(seq[i]) THEN 1 ELSE 0) + CountNotPassed(seq, i + 1)

\* The history after n "performance" validations, queued one by one with
\* high priority while the agent is not started, have completed.
SeedHistory(n) == [i \in 1..n |-> CompletedEntry(i, "performance", TRUE)]

\* The numbers of validations already made when a behaviour begins
SeedLengths == {0, 8, 998}

\* What start() finds at rulesPath/validation-history.json: nothing, or the
\* history an earlier run saved
HistoryFiles ==
    { [exists |-> FALSE, content |-> <<>>],
      [exists |-> TRUE,
       content |-> [i \in 1..SaveEvery |->
                       CompletedEntry(0 - i, "performance", TRUE)]] }

processValidationQueueNoCeiling(st) ==
    [st EXCEPT
        !.validationQueue = <<>>,
        !.activeValidations =
            @ \cup {st.validationQueue[i].id : i \in 1..Len(st.validationQueue)},
        !.inProgress =
            @ \o [i \in 1..Len(st.validationQueue) |->
                     [id |-> st.validationQueue[i].id,
                      type |-> st.validationQueue[i].type,
                      outcome |-> validationOutcome(st.validationQueue[i]),
                      stage |-> "validating"]]]

\* processValidationQueue starting as many validations as there are free
\* slots and taking the rest out of the queue as well
processValidationQueueEager(st) ==
    LET free == agentConfig.maxConcurrentValidations
                    - Cardinality(st.activeValidations)
        n == Min(IF free > 0 THEN free ELSE 0, Len(st.validationQueue))
    IN  [st EXCEPT
            !.validationQueue = <<>>,
            !.activeValidations =
                @ \cup {st.validationQueue[i].id : i \in 1..n},
            !.inProgress =
                @ \o [i \in 1..n |->
                         [id |-> st.validationQueue[i].id,
                          type |-> st.validationQueue[i].type,
                          outcome |-> validationOutcome(st.validationQueue[i]),
                          stage |-> "validating"]]]

\* processValidationQueue on st (the fields validationQueue,
\* activeValidations, inProgress): each validation it takes runs
\* processValidation up to its first await
RECURSIVE processValidationQueue(_)
processValidationQueue(st) ==
    IF Len(st.validationQueue) > 0
       /\ Cardinality(st.activeValidations) < agentConfig.maxConcurrentValidations
    THEN LET validation == Head(st.validationQueue)
         IN  processValidationQueue(
                 [st EXCEPT
                     !.validationQueue = Tail(@),
                     !.activeValidations = @ \cup {validation.id},
                     !.inProgress =
                         Append(@, [id |-> validation.id,
                                    type |-> validation.type,
                                    outcome |-> validationOutcome(validation),
                                    stage |-> "validating"])])
    ELSE st

AgentData ==
    [ validationQueue |-> validationQueue,
      activeValidations |-> activeValidations, inProgress |-> inProgress ]

CommitAgent(st) ==
    /\ validationQueue' = st.validationQueue
    /\ activeValidations' = st.activeValidations
    /\ inProgress' = st.inProgress

\* The agent runs no callback: no tick is between two of its awaits and no
\* promise chain of a validation has a reaction queued.
AgentIdle ==
    /\ agentPc \in {"init", "loading", "timer"}
    /\ \A i \in 1..Len(inProgress) : inProgress[i].stage = "saving"

(* ------------------------ validation agent: actions --------------------- *)

agentFixed == <<agentConfig, errorRateThreshold>>

\* queueValidation(validationRequest), called from outside the agent
QueueValidationRequest(validationRequest) ==
    /\ AgentIdle
    /\ agentEmitted.validation_queued < MaxValidations
    /\ LET st == queueValidation(
                     [validationQueue |-> validationQueue, valSeq |-> valSeq,
                      agentImmediates |-> agentImmediates,
                      agentEmitted |-> agentEmitted],
                     validationRequest, activeValidations)
       IN  /\ validationQueue' = st.validationQueue
           /\ valSeq' = st.valSeq
           /\ agentImmediates' = st.agentImmediates
           /\ agentEmitted' = st.agentEmitted
    /\ UNCHANGED <<agentFixed, isRunning, activeValidations, validationHistory,
                   anomalies, inProgress, historyLog, agentPc, detectPasses>>
    /\ UNCHANGED pipelineVars
    /\ UNCHANGED engineVars

\* setImmediate(() => this.processValidationQueue()) of queueValidation
AgentImmediateFires ==
    /\ AgentIdle
    /\ agentImmediates > 0
    /\ agentImmediates' = agentImmediates - 1
    /\ CommitAgent(processValidationQueue(AgentData))
    /\ UNCHANGED <<agentFixed, isRunning, validationHistory, anomalies,
                   historyLog, agentEmitted, valSeq, agentPc, detectPasses>>
    /\ UNCHANGED pipelineVars
    /\ UNCHANGED engineVars

\* start() up to `await fs.readFile(...)` of initializeValidationPatterns
AgentStart ==
    /\ AgentIdle
    /\ IF isRunning
       THEN UNCHANGED vars
       ELSE /\ agentPc = "init"
            /\ isRunning' = TRUE
            /\ agentPc' = "loading"
            /\ UNCHANGED <<agentFixed, validationQueue, activeValidations,
                           validationHistory, anomalies, inProgress, historyLog,
                           agentEmitted, valSeq, agentImmediates, detectPasses>>
            /\ UNCHANGED pipelineVars
    /\ UNCHANGED engineVars

\* start() resumes with the file read or missing: the history is replaced
\* by the file's (analyzeHistoricalPatterns finds no hasErrors in it and
\* leaves the threshold), the validation loop starts, and its first
\* iteration runs up to the awaits of runScheduledValidations
AgentLoaded(file) ==
    /\ AgentIdle
    /\ agentPc = "loading"
    /\ IF ~file.exists
       THEN UNCHANGED <<validationHistory, historyLog>>
       ELSE /\ validationHistory' = file.content
            /\ historyLog' = [i \in 1..Len(file.content) |-> file.content[i].id]
    /\ IF isRunning
       THEN /\ CommitAgent(processValidationQueue(AgentData))
            /\ agentPc' = "scheduled"
       ELSE /\ UNCHANGED <<validationQueue, activeValidations, inProgress>>
            /\ agentPc' = "timer"
    /\ UNCHANGED <<agentFixed, isRunning, anomalies, agentEmitted, valSeq,
                   agentImmediates, detectPasses>>
    /\ UNCHANGED pipelineVars
    /\ UNCHANGED engineVars

\* validateLoop, called by its timer, up to the awaits of
\* runScheduledValidations
Tick ==
    /\ AgentIdle
    /\ agentPc = "timer"
    /\ isRunning
    /\ detectPasses < MaxTicks
    /\ CommitAgent(processValidationQueue(AgentData))
    /\ agentPc' = "scheduled"
    /\ UNCHANGED <<agentFixed, isRunning, validationHistory, anomalies,
                   historyLog, agentEmitted, valSeq, agentImmediates,
                   detectPasses>>
    /\ UNCHANGED pipelineVars
    /\ UNCHANGED engineVars

detectAnomaliesNoMinimum(history) ==
    LET recentValidations == LastN(history, AnomalyWindow)
        failed == CountNotPassed(recentValidations, 1)
    IN  Len(recentValidations) > 0
        /\ failed * errorRateThreshold.den
               > errorRateThreshold.num * Len(recentValidations)

\* detectAnomalies: whether it records an anomaly, given the history
detectAnomalies(history) ==
    LET recentValidations == LastN(history, AnomalyWindow)
        failed == CountNotPassed(recentValidations, 1)
    IN  IF Len(recentValidations) < AnomalyMinimum THEN FALSE
        ELSE failed * errorRateThreshold.den
                 > errorRateThreshold.num * Len(recentValidations)

\* runScheduledValidations after its awaits: detectAnomalies; then
\* validateLoop sets its next timer
TickDetects ==
    /\ agentPc = "scheduled"
    /\ detectPasses' = detectPasses + 1
    /\ IF detectAnomalies(validationHistory)
       THEN /\ anomalies' =
                   Append(anomalies,
                          [type |-> "high_error_rate",
                           failed |-> CountNotPassed(
                               LastN(validationHistory, AnomalyWindow), 1),
                           total |-> Len(LastN(validationHistory, AnomalyWindow)),
                           threshold |-> errorRateThreshold])
            /\ agentEmitted' = [agentEmitted EXCEPT !.anomaly_detected = @ + 1]
       ELSE UNCHANGED <<anomalies, agentEmitted>>
    /\ agentPc' = "timer"
    /\ UNCHANGED <<agentFixed, isRunning, validationQueue, activeValidations,
                   validationHistory, inProgress, historyLog, valSeq,
                   agentImmediates>>
    /\ UNCHANGED pipelineVars
    /\ UNCHANGED engineVars

SetStage(i, stage) == [inProgress EXCEPT ![i].stage = stage]

\* handleValidationError for the i-th running validation
handleValidationError(i) ==
    /\ validationHistory' =
           Append(validationHistory,
                  FailedEntry(inProgress[i].id, inProgress[i].type))
    /\ historyLog' = Append(historyLog, inProgress[i].id)
    /\ agentEmitted' = [agentEmitted EXCEPT !.validation_failed = @ + 1]
    /\ inProgress' = SetStage(i, "settled")

\* handleValidationResult for the i-th running validation, up to
\* `await this.saveValidationHistory()` or to its end
handleValidationResult(i) ==
    LET entry == CompletedEntry(inProgress[i].id, inProgress[i].type,
                                inProgress[i].outcome = "passed")
        history == LastN(Append(validationHistory, entry), ValidationHistoryCap)
    IN  /\ validationHistory' = history
        /\ historyLog' = Append(historyLog, entry.id)
        /\ agentEmitted' = [agentEmitted EXCEPT !.validation_completed = @ + 1]
        /\ inProgress' = SetStage(i, IF Len(history) % SaveEvery = 0
                                     THEN "saving" ELSE "settled")

\* processValidation has settled: the .then or the .catch reaction runs
ValidationSettles(i) ==
    /\ inProgress[i].stage = "validating"
    /\ IF inProgress[i].outcome = "threw"
       THEN handleValidationError(i)
       ELSE handleValidationResult(i)
    /\ UNCHANGED <<agentFixed, isRunning, validationQueue, activeValidations,
                   anomalies, valSeq, agentImmediates, agentPc, detectPasses>>
    /\ UNCHANGED pipelineVars
    /\ UNCHANGED engineVars

\* fs.writeFile of saveValidationHistory has finished
SaveCompletes(i) ==
    /\ AgentIdle
    /\ inProgress[i].stage = "saving"
    /\ inProgress' = SetStage(i, "settled")
    /\ UNCHANGED <<agentFixed, isRunning, validationQueue, activeValidations,
                   validationHistory, anomalies, historyLog, agentEmitted,
                   valSeq, agentImmediates, agentPc, detectPasses>>
    /\ UNCHANGED pipelineVars
    /\ UNCHANGED engineVars

\* .finally(() => this.activeValidations.delete(validation.id))
ValidationFinally(i) ==
    /\ inProgress[i].stage = "settled"
    /\ activeValidations' = activeValidations \ {inProgress[i].id}
    /\ inProgress' = SubSeq(inProgress, 1, i - 1)
                         \o SubSeq(inProgress, i + 1, Len(inProgress))
    /\ UNCHANGED <<agentFixed, isRunning, validationQueue, validationHistory,
                   anomalies, historyLog, agentEmitted, valSeq,
                   agentImmediates, agentPc, detectPasses>>
    /\ UNCHANGED pipelineVars
    /\ UNCHANGED engineVars

(* ------------------------- rule engine: JS values ----------------------- *)

\* A function object, such as the members of Object.prototype
Fn(name) == [t |-> "function", name |-> name]

\* Object(v) for a primitive v: its wrapper object
Boxed(v) == [t |-> "object", boxed |-> v]

\* The function-valued members every object inherits from Object.prototype
ObjectPrototypeKeys ==
    {"constructor", "toString", "toLocaleString", "valueOf", "hasOwnProperty",
     "isPrototypeOf", "propertyIsEnumerable"}

\* The number a decimal string denotes, for the strings of the model
DecimalValue(s) ==
    CASE s = "50" -> Num(50)
      [] s = "15000" -> Num(15000)
      [] OTHER -> NaN

\* parseFloat(v): of String(v)
RECURSIVE parseFloat(_)
parseFloat(v) ==
    CASE v.t = "number" -> v
      [] v.t = "string" -> DecimalValue(v.s)
      [] v.t = "array" ->
             IF Len(v.items) = 0 \/ v.items[1].t \in {"null", "undefined"}
             THEN NaN ELSE parseFloat(v.items[1])
      [] OTHER -> NaN

\* Number(v), the coercion of the relational and arithmetic operators
ToNumber(v) ==
    CASE v.t = "number" -> v
      [] v.t = "string" -> IF v.s = "" THEN Num(0) ELSE DecimalValue(v.s)
      [] v.t = "null" -> Num(0)
      [] v.t = "boolean" -> Num(IF v.b THEN 1 ELSE 0)
      [] v.t = "array" ->
             IF Len(v.items) = 0 THEN Num(0)
             ELSE IF Len(v.items) = 1 /\ v.items[1].t \in {"number", "string"}
                  THEN IF v.items[1].t = "number" THEN v.items[1]
                       ELSE IF v.items[1].s = "" THEN Num(0)
                            ELSE DecimalValue(v.items[1].s)
                  ELSE IF Len(v.items) = 1
                          /\ v.items[1].t \in {"null", "undefined"}
                       THEN Num(0) ELSE NaN
      [] OTHER -> NaN

\* a < b and a <= b for numbers
NumLess(a, b) ==
    IF IsNaN(a) \/ IsNaN(b) THEN FALSE
    ELSE IF IsInfinite(a) THEN a.inf < 0 /\ a # b
    ELSE IF IsInfinite(b) THEN b.inf > 0
    ELSE a.n < b.n

NumLessEq(a, b) == ~IsNaN(a) /\ ~IsNaN(b) /\ (a = b \/ NumLess(a, b))

\* a * b and a + b for numbers
NumTimes(a, b) ==
    IF IsNaN(a) \/ IsNaN(b) THEN NaN
    ELSE IF IsInfinite(a) \/ IsInfinite(b)
         THEN IF (IsFinite(a) /\ a.n = 0) \/ (IsFinite(b) /\ b.n = 0) THEN NaN
              ELSE IF NumLess(a, Num(0)) = NumLess(b, Num(0))
                   THEN Infinity ELSE NegInfinity
    ELSE Num(a.n * b.n)

NumPlus(a, b) ==
    IF IsNaN(a) \/ IsNaN(b) THEN NaN
    ELSE IF IsInfinite(a) THEN (IF IsInfinite(b) /\ a # b THEN NaN ELSE a)
    ELSE IF IsInfinite(b) THEN b
    ELSE Num(a.n + b.n)

\* Math.max(a, b) and Math.min(a, b)
MathMax(a, b) ==
    IF IsNaN(a) \/ IsNaN(b) THEN NaN ELSE IF NumLess(a, b) THEN b ELSE a

MathMin(a, b) ==
    IF IsNaN(a) \/ IsNaN(b) THEN NaN ELSE IF NumLess(b, a) THEN b ELSE a

\* a === b; the objects of a rule and those of a transaction are distinct
StrictEquals(a, b) ==
    /\ a.t = b.t
    /\ a.t \in {"number", "string", "boolean", "null", "undefined"}
    /\ ~IsNaN(a)
    /\ a = b

\* Array.prototype.includes compares with SameValueZero
SameValueZero(a, b) == StrictEquals(a, b) \/ (IsNaN(a) /\ IsNaN(b))

\* value[key], for a key that is a name
Member(value, key) ==
    CASE value.t = "object" /\ "fields" \in DOMAIN value ->
             IF key \in DOMAIN value.fields THEN value.fields[key]
             ELSE IF key \in ObjectPrototypeKeys THEN Fn(key) ELSE Undefined
      [] value.t = "string" /\ key = "length" -> Num(Len(value.s))
      [] value.t = "array" /\ key = "length" -> Num(Len(value.items))
      [] OTHER -> IF key \in ObjectPrototypeKeys THEN Fn(key) ELSE Undefined

\* The dot-path `a.b.c` as a name
RECURSIVE JoinPath(_)
JoinPath(path) ==
    IF Len(path) = 1 THEN path[1] ELSE path[1] \o "." \o JoinPath(Tail(path))

\* lodash baseGet over the keys of a path, from the index-th
RECURSIVE baseGet(_, _, _)
baseGet(object, path, index) ==
    IF object.t \in {"null", "undefined"}
    THEN Undefined
    ELSE IF index = Len(path) THEN Member(object, path[index])
    ELSE baseGet(Member(object, path[index]), path, index + 1)

\* getFieldValue(field, context): _.get(context, field), the field being a
\* non-empty dot-path held as the sequence of its keys.  A path that is as a
\* whole a key of the context is that key (lodash isKey).
getFieldValue(field, context) ==
    IF context.t \in {"null", "undefined"} THEN Undefined
    ELSE IF Len(field) > 1 /\ context.t = "object"
            /\ "fields" \in DOMAIN context
            /\ JoinPath(field) \in DOMAIN context.fields
         THEN context.fields[JoinPath(field)]
    ELSE LET result == baseGet(context, field, 1)
         IN  IF result.t = "undefined" THEN Undefined ELSE result

(* --------------------- rule engine: condition evaluator ----------------- *)

\* What a call does: it returns a value or throws an error
Returned(v) == [ok |-> TRUE, v |-> v]
Thrown(error) == [ok |-> FALSE, error |-> error]

MalformedCondition == "Condition must have field and operator"
UnsupportedOperator == "Unsupported operator"
TypeError == "TypeError"

\* The keys of this.operators
Operators ==
    {"equals", "not_equals", "greater_than", "less_than",
     "greater_than_or_equal", "less_than_or_equal", "contains", "not_contains",
     "in", "not_in", "starts_with", "ends_with", "is_empty", "is_not_empty",
     "date_before", "date_after", "date_between"}

\* Of those, the ones whose functions are modelled here; the conditions of
\* the model use no string or date operator.
ModelledOperators ==
    {"equals", "not_equals", "greater_than", "less_than",
     "greater_than_or_equal", "less_than_or_equal", "in", "not_in",
     "is_empty", "is_not_empty"}

\* Array.isArray(b) ? b.includes(a) : false
Includes(a, b) ==
    b.t = "array" /\ \E i \in 1..Len(b.items) : SameValueZero(b.items[i], a)

\* !a || a === '' || (Array.isArray(a) && a.length === 0)
IsEmpty(a) == Falsy(a) \/ (a.t = "array" /\ Len(a.items) = 0)

\* this.operators[operator](a, b), for a modelled operator
RegisteredOperator(operator, a, b) ==
    CASE operator = "equals" -> StrictEquals(a, b)
      [] operator = "not_equals" -> ~StrictEquals(a, b)
      [] operator = "greater_than" -> NumLess(parseFloat(b), parseFloat(a))
      [] operator = "less_than" -> NumLess(parseFloat(a), parseFloat(b))
      [] operator = "greater_than_or_equal" ->
             NumLessEq(parseFloat(b), parseFloat(a))
      [] operator = "less_than_or_equal" ->
             NumLessEq(parseFloat(a), parseFloat(b))
      [] operator = "in" -> Includes(a, b)
      [] operator = "not_in" -> IF b.t = "array" THEN ~Includes(a, b) ELSE TRUE
      [] operator = "is_empty" -> IsEmpty(a)
      [] operator = "is_not_empty" -> ~IsEmpty(a)

\* A member of Object.prototype called as operatorFunc(a, b), its `this`
\* undefined
InheritedOperator(operator, a, b) ==
    CASE operator = "toString" -> Returned(Str("[object Undefined]"))
      [] operator = "constructor" ->
             Returned(IF a.t \in {"object", "array", "function"}
                      THEN a ELSE Boxed(a))
      [] operator = "isPrototypeOf" ->
             IF a.t \in {"object", "array", "function"}
             THEN Thrown(TypeError) ELSE Returned(Bool(FALSE))
      [] OTHER -> Thrown(TypeError)

\* The field-based branch of parseCondition: the operator is looked up in
\* this.operators, an object literal, by property access
EvaluateLeaf(condition, context) ==
    IF \/ "t" \in DOMAIN condition
       \/ "field" \notin DOMAIN condition
       \/ "operator" \notin DOMAIN condition
       \/ condition.field = <<>>
       \/ condition.operator = ""
    THEN Thrown(MalformedCondition)
    ELSE LET fieldValue == getFieldValue(condition.field, context)
             value == IF "value" \in DOMAIN condition
                      THEN condition.value ELSE Undefined
         IN  IF condition.operator \in Operators
             THEN Returned(Bool(RegisteredOperator(condition.operator,
                                                   fieldValue, value)))
             ELSE IF condition.operator \in ObjectPrototypeKeys
                  THEN InheritedOperator(condition.operator, fieldValue, value)
                  ELSE Thrown(UnsupportedOperator)

RECURSIVE parseCondition(_, _)
RECURSIVE Every(_, _, _)
RECURSIVE Some(_, _, _)

RECURSIVE EveryNeedsChild(_, _, _)
EveryNeedsChild(children, index, context) ==
    IF Len(children) = 0 THEN Returned(Bool(FALSE))
    ELSE IF index > Len(children) THEN Returned(Bool(TRUE))
    ELSE LET r == parseCondition(children[index], context)
         IN  IF ~r.ok THEN r
             ELSE IF Falsy(r.v) THEN Returned(Bool(FALSE))
             ELSE EveryNeedsChild(children, index + 1, context)

EveryToTheEnd(children, index, context) ==
    LET all == [i \in index..Len(children) |->
                   parseCondition(children[i], context)]
        raising == {i \in DOMAIN all : ~all[i].ok}
    IN  IF raising # {}
        THEN all[CHOOSE i \in raising : \A j \in raising : i <= j]
        ELSE Returned(Bool(\A i \in DOMAIN all : ~Falsy(all[i].v)))

\* condition.and.every(...) from the index-th child
Every(children, index, context) ==
    IF index > Len(children) THEN Returned(Bool(TRUE))
    ELSE LET r == parseCondition(children[index], context)
         IN  IF ~r.ok THEN r
             ELSE IF Falsy(r.v) THEN Returned(Bool(FALSE))
             ELSE Every(children, index + 1, context)

\* condition.or.some(...) from the index-th child
Some(children, index, context) ==
    IF index > Len(children) THEN Returned(Bool(FALSE))
    ELSE LET r == parseCondition(children[index], context)
         IN  IF ~r.ok THEN r
             ELSE IF ~Falsy(r.v) THEN Returned(Bool(TRUE))
             ELSE Some(children, index + 1, context)

\* parseCondition(condition, context).  A condition is null, or an object
\* with some of the keys and (a sequence), or (a sequence), not, field,
\* operator, value.
parseCondition(condition, context) ==
    IF "t" \in DOMAIN condition /\ Falsy(condition)
    THEN Returned(Bool(FALSE))
    ELSE IF "and" \in DOMAIN condition
    THEN Every(condition.and, 1, context)
    ELSE IF "or" \in DOMAIN condition
    THEN Some(condition.or, 1, context)
    ELSE IF "not" \in DOMAIN condition /\ ~("t" \in DOMAIN condition.not
                                            /\ Falsy(condition.not))
    THEN LET r == parseCondition(condition.not, context)
         IN  IF ~r.ok THEN r ELSE Returned(Bool(Falsy(r.v)))
    ELSE EvaluateLeaf(condition, context)

(* ------------------------- rule engine: actions ------------------------- *)

InRangeExclusive(fieldValue, range) ==
    /\ "min" \in DOMAIN range
    /\ "max" \in DOMAIN range
    /\ NumLess(ToNumber(range.min), ToNumber(fieldValue))
    /\ NumLess(ToNumber(fieldValue), ToNumber(range.max))

\* fieldValue >= range.min && fieldValue <= range.max, a bound that is not
\* there being undefined
InRange(fieldValue, range) ==
    /\ "min" \in DOMAIN range
    /\ "max" \in DOMAIN range
    /\ NumLessEq(ToNumber(range.min), ToNumber(fieldValue))
    /\ NumLessEq(ToNumber(fieldValue), ToNumber(range.max))

\* The loop over factor.ranges: range.points * weight of the first range
\* that holds the value, or nothing added
RECURSIVE RangePoints(_, _, _, _)
RangePoints(ranges, index, fieldValue, weight) ==
    IF index > Len(ranges) THEN Num(0)
    ELSE IF InRange(fieldValue, ranges[index])
         THEN NumTimes(IF "points" \in DOMAIN ranges[index]
                       THEN ToNumber(ranges[index].points) ELSE NaN,
                       ToNumber(weight))
         ELSE RangePoints(ranges, index + 1, fieldValue, weight)

\* The loop over config.factors, from the index-th, with the score so far
RECURSIVE FactorScore(_, _, _, _)
FactorScore(factors, index, transactionData, score) ==
    IF index > Len(factors) THEN score
    ELSE LET factor == factors[index]
             fieldValue == IF "field" \in DOMAIN factor
                           THEN getFieldValue(factor.field, transactionData)
                           ELSE Undefined
             weight == IF "weight" \in DOMAIN factor /\ ~Falsy(factor.weight)
                       THEN factor.weight ELSE Num(1)
         IN  FactorScore(factors, index + 1, transactionData,
                 IF "ranges" \in DOMAIN factor
                 THEN NumPlus(score, RangePoints(factor.ranges, 1,
                                                 fieldValue, weight))
                 ELSE score)

\* calculateRiskScore(config, transactionData), for a config that is there
calculateRiskScore(scoreConfig, transactionData) ==
    LET score == IF "factors" \in DOMAIN scoreConfig
                 THEN FactorScore(scoreConfig.factors, 1, transactionData,
                                  Num(0))
                 ELSE Num(0)
    IN  MathMin(MathMax(score, Num(0)), Num(100))

\* interpolateMessage(template, data), the template held as the sequence of
\* its parts: a literal text, or a placeholder {path}.  The message is the
\* sequence of the literal parts and of what replaces each placeholder: the
\* field's value, or the placeholder itself when the value is falsy.
interpolateMessage(template, data) ==
    [i \in 1..Len(template) |->
        IF "placeholder" \in DOMAIN template[i]
        THEN LET v == getFieldValue(template[i].placeholder, data)
             IN  IF Falsy(v) THEN template[i] ELSE [replaced |-> v]
        ELSE template[i]]

\* action.config.<key>
ConfigValue(action, key) ==
    IF key \in DOMAIN action.config THEN action.config[key] ELSE Undefined

UnknownActionType == "Unknown action type"

\* The cases of the switch of executeAction
ActionKinds ==
    {"flag_transaction", "send_notification", "calculate_score", "log_event",
     "reject_transaction"}

\* executeAction(action, transactionData)
executeAction(action, transactionData) ==
    LET type == IF "type" \in DOMAIN action THEN action.type ELSE "undefined"
        hasConfig == "config" \in DOMAIN action
    IN  CASE type = "flag_transaction" ->
                 IF ~hasConfig THEN Thrown(TypeError)
                 ELSE Returned([flagged |-> TRUE,
                                reason |-> ConfigValue(action, "reason")])
          [] type = "send_notification" ->
                 IF ~hasConfig \/ "message" \notin DOMAIN action.config
                 THEN Thrown(TypeError)
                 ELSE Returned([notification_sent |-> TRUE,
                                recipient |-> ConfigValue(action, "recipient"),
                                message |-> interpolateMessage(
                                    action.config.message, transactionData)])
          [] type = "calculate_score" ->
                 IF ~hasConfig THEN Thrown(TypeError)
                 ELSE Returned([score |-> calculateRiskScore(action.config,
                                                             transactionData),
                                threshold |-> ConfigValue(action, "threshold")])
          [] type = "log_event" ->
                 IF ~hasConfig THEN Thrown(TypeError)
                 ELSE Returned([logged |-> TRUE,
                                event |-> ConfigValue(action, "event"),
                                data |-> transactionData])
          [] type = "reject_transaction" ->
                 IF ~hasConfig THEN Thrown(TypeError)
                 ELSE Returned([rejected |-> TRUE,
                                reason |-> ConfigValue(action, "reason")])
          [] OTHER -> Thrown(UnknownActionType)

\* The entry executeActions pushes for one action
ExecutedAction(action, transactionData) ==
    LET actionResult == executeAction(action, transactionData)
        type == IF "type" \in DOMAIN action THEN action.type ELSE "undefined"
    IN  IF actionResult.ok
        THEN [type |-> type, success |-> TRUE, result |-> actionResult.v]
        ELSE [type |-> type, success |-> FALSE, result |-> Null,
              error |-> actionResult.error]

executeActionsStopsAtFailure(actions, transactionData) ==
    LET all == [i \in 1..Len(actions) |->
                   ExecutedAction(actions[i], transactionData)]
        failures == {i \in 1..Len(all) : ~all[i].success}
    IN  IF failures = {} THEN all
        ELSE SubSeq(all, 1, CHOOSE i \in failures : \A j \in failures : i <= j)

\* executeActions(actions, transactionData)
executeActions(actions, transactionData) ==
    [i \in 1..Len(actions) |-> ExecutedAction(actions[i], transactionData)]

(* --------------------------- rule engine: rules ------------------------- *)

\* evaluateRule(rule, transactionData)
evaluateRule(rule, transactionData) ==
    LET evaluated ==
            IF "conditions" \in DOMAIN rule
               /\ ~("t" \in DOMAIN rule.conditions /\ Falsy(rule.conditions))
            THEN parseCondition(rule.conditions, transactionData)
            ELSE Returned(Bool(FALSE))
    IN  IF ~evaluated.ok
        THEN [ruleId |-> rule.id, result |-> Bool(FALSE), actions |-> <<>>,
              error |-> Str(evaluated.error)]
        ELSE [ruleId |-> rule.id, result |-> evaluated.v,
              actions |-> IF ~Falsy(evaluated.v) /\ "actions" \in DOMAIN rule
                          THEN executeActions(rule.actions, transactionData)
                          ELSE <<>>,
              error |-> Null]

EnabledAlways(rule) == TRUE

\* rule.enabled !== false
Enabled(rule) == ~("enabled" \in DOMAIN rule /\ rule.enabled = Bool(FALSE))

\* results.filter(...).length
CountResults(results, Test(_)) == Len(SelectSeq(results, Test))

RuleProcessor_processTransactionAborts(ruleList, transactionData) ==
    IF \E i \in 1..Len(ruleList) : "t" \in DOMAIN ruleList[i]
    THEN Thrown(TypeError)
    ELSE LET enabledRules == SelectSeq(ruleList, Enabled)
             results == [i \in 1..Len(enabledRules) |->
                            evaluateRule(enabledRules[i], transactionData)]
         IN  IF \E i \in 1..Len(results) : ~Falsy(results[i].error)
             THEN Thrown(results[CHOOSE i \in 1..Len(results) :
                                     ~Falsy(results[i].error)].error.s)
             ELSE Returned(
                 [totalRules |-> Len(results),
                  passedRules |->
                      CountResults(results, LAMBDA r : ~Falsy(r.result)),
                  failedRules |->
                      CountResults(results, LAMBDA r : Falsy(r.result)),
                  errors |-> 0,
                  results |-> results])

\* RuleProcessor.processTransaction(rules, transactionData): the report, or
\* the TypeError of reading `enabled` of a rule that is null
RuleProcessor_processTransaction(ruleList, transactionData) ==
    IF \E i \in 1..Len(ruleList) : "t" \in DOMAIN ruleList[i]
    THEN Thrown(TypeError)
    ELSE LET enabledRules == SelectSeq(ruleList, Enabled)
             results == [i \in 1..Len(enabledRules) |->
                            evaluateRule(enabledRules[i], transactionData)]
         IN  Returned(
                 [totalRules |-> Len(results),
                  passedRules |->
                      CountResults(results, LAMBDA r : ~Falsy(r.result)),
                  failedRules |->
                      CountResults(results, LAMBDA r : Falsy(r.result)),
                  errors |-> CountResults(results, LAMBDA r : ~Falsy(r.error)),
                  results |-> results])

(* ------------------------ pipeline: result summary ---------------------- *)

\* r.actions.some(a => a.type === 'flag_transaction' && a.success)
Flagged(r) ==
    \E i \in 1..Len(r.actions) :
        r.actions[i].type = "flag_transaction" /\ r.actions[i].success

\* The scores calculateOverallRiskScore adds up: action.result.score || 0
\* of each successful calculate_score action of the triggered rules
RECURSIVE ActionScores(_, _)
ActionScores(actions, index) ==
    IF index > Len(actions) THEN <<>>
    ELSE (IF actions[index].type = "calculate_score" /\ actions[index].success
          THEN <<IF Falsy(actions[index].result.score) THEN Num(0)
                 ELSE actions[index].result.score>>
          ELSE <<>>) \o ActionScores(actions, index + 1)

RECURSIVE RuleScores(_, _)
RuleScores(triggeredRules, index) ==
    IF index > Len(triggeredRules) THEN <<>>
    ELSE ActionScores(triggeredRules[index].actions, 1)
             \o RuleScores(triggeredRules, index + 1)

RECURSIVE SumScores(_, _)
SumScores(scores, index) ==
    IF index > Len(scores) THEN 0
    ELSE scores[index].n + SumScores(scores, index + 1)

calculateOverallRiskScoreTruncates(triggeredRules) ==
    LET scores == RuleScores(triggeredRules, 1)
    IN  IF Len(triggeredRules) = 0 \/ Len(scores) = 0 THEN Num(0)
        ELSE Num(SumScores(scores, 1) \div Len(scores))

\* calculateOverallRiskScore(triggeredRules): Math.round of the mean
calculateOverallRiskScore(triggeredRules) ==
    LET scores == RuleScores(triggeredRules, 1)
    IN  IF Len(triggeredRules) = 0 \/ Len(scores) = 0 THEN Num(0)
        ELSE Num((2 * SumScores(scores, 1) + Len(scores)) \div (2 * Len(scores)))

generateRecommendationCountFirst(triggeredRules, flaggedRules) ==
    IF Len(triggeredRules) > 2 THEN "MONITOR_CLOSELY"
    ELSE IF Len(flaggedRules) > 0 THEN "REVIEW_REQUIRED"
    ELSE IF Len(triggeredRules) > 0 THEN "NORMAL_MONITORING"
    ELSE "APPROVED"

generateRecommendation(triggeredRules, flaggedRules) ==
    IF Len(flaggedRules) > 0 THEN "REVIEW_REQUIRED"
    ELSE IF Len(triggeredRules) > 2 THEN "MONITOR_CLOSELY"
    ELSE IF Len(triggeredRules) > 0 THEN "NORMAL_MONITORING"
    ELSE "APPROVED"

\* createResultSummary(ruleResults)
createResultSummary(ruleResults) ==
    LET triggeredRules ==
            SelectSeq(ruleResults.results, LAMBDA r : ~Falsy(r.result))
        flaggedRules == SelectSeq(triggeredRules, Flagged)
    IN  [totalRulesEvaluated |-> ruleResults.totalRules,
         rulesTriggered |-> Len(triggeredRules),
         rulesFlagged |-> Len(flaggedRules),
         hasErrors |-> ruleResults.errors > 0,
         riskScore |-> calculateOverallRiskScore(triggeredRules),
         recommendation |-> generateRecommendation(triggeredRules, flaggedRules)]

(* ---------------------- rule engine: what it is given ------------------- *)

\* Number of children of an and/or node, of actions of a rule, of rules of a
\* rule set, of factors of a score configuration and of ranges of a factor
\* in the calls made of the engine.
MaxChildren == 2
MaxActions == 2
MaxRules == 3
MaxFactors == 2
MaxRanges == 2

\* The sequences of at most n elements of S
SeqsUpTo(S, n) == UNION {[1..k -> S] : k \in 0..n}

\* getDefaultRules(): the rule set start() loads
DefaultScoreConfig ==
    [threshold |-> Num(80),
     factors |->
        <<[field |-> <<"amount">>, weight |-> Num(1),
           ranges |-> <<[min |-> Num(10000), max |-> Num(50000),
                         points |-> Num(30)],
                        [min |-> Num(50000), max |-> Num(100000),
                         points |-> Num(60)],
                        [min |-> Num(100000), max |-> Infinity,
                         points |-> Num(90)]>>]>>]

DefaultRules ==
    <<[id |-> "high_amount_transaction", enabled |-> Bool(TRUE),
       conditions |-> [field |-> <<"amount">>, operator |-> "greater_than",
                       value |-> Num(10000)],
       actions |->
          <<[type |-> "flag_transaction",
             config |-> [reason |->
                            Str("High amount transaction requires review")]],
            [type |-> "calculate_score", config |-> DefaultScoreConfig]>>],
      [id |-> "suspicious_location", enabled |-> Bool(TRUE),
       conditions |->
          [and |-> <<[field |-> <<"location", "country">>, operator |-> "in",
                      value |-> Arr(<<Str("Unknown"), Str("Restricted")>>)],
                     [field |-> <<"amount">>, operator |-> "greater_than",
                      value |-> Num(1000)]>>],
       actions |->
          <<[type |-> "flag_transaction",
             config |-> [reason |->
                            Str("Transaction from suspicious location")]],
            [type |-> "send_notification",
             config |->
                [recipient |-> Str("security@company.com"),
                 message |->
                    <<[text |-> "Suspicious transaction detected from "],
                      [placeholder |-> <<"location", "country">>],
                      [text |-> " for amount "],
                      [placeholder |-> <<"amount">>]>>]]>>],
      [id |-> "frequent_transactions", enabled |-> Bool(TRUE),
       conditions |-> [field |-> <<"user", "transactionCount24h">>,
                       operator |-> "greater_than", value |-> Num(20)],
       actions |->
          <<[type |-> "log_event",
             config |-> [event |->
                            Str("frequent_transactions_detected")]]>>]>>

\* The transaction object processTransaction hands to the rule processor:
\* the submitted document as enhanceTransaction spreads it, with the fields
\* it sets, status and processedAt as set at the head of the attempt
TransactionData(d) ==
    LET set == {"id", "timestamp", "processedAt", "retryCount", "status",
                "metadata"}
    IN  Obj([k \in DOMAIN d.fields \cup set |->
                CASE k = "id" -> Str("generated-id")
                  [] k = "timestamp" -> Str("received")
                  [] k = "processedAt" -> Str("taken")
                  [] k = "retryCount" -> Num(0)
                  [] k = "status" -> Str("processing")
                  [] k = "metadata" ->
                         Obj([receivedAt |-> Str("received"),
                              source |-> Str("ui"), version |-> Str("1.0")])
                  [] OTHER -> d.fields[k]])

\* The transactions the pipeline accepts, as the rule processor gets them
Transactions == {TransactionData(d) : d \in {x \in Docs : isValidTransaction(x)}}

\* Leaves: those of the default rules, leaves on fields no transaction has,
\* leaves whose operator is a name this.operators does not define, and
\* leaves that lack the field or the operator
LeafFields ==
    {<<"amount">>, <<"location", "country">>, <<"user", "transactionCount24h">>,
     <<"merchant">>, <<"merchant", "category">>, <<"constructor">>,
     <<"type", "length">>}

LeafOperators ==
    ModelledOperators
        \cup {"toString", "isPrototypeOf", "hasOwnProperty", "constructor",
              "matches", "EQUALS"}

LeafValues ==
    {Num(10000), Num(20), Str("US"), Null,
     Arr(<<Str("Unknown"), Str("Restricted")>>)}

Leaves ==
    {[field |-> f, operator |-> o, value |-> v] :
         f \in LeafFields, o \in LeafOperators, v \in LeafValues}
    \cup {[field |-> f, operator |-> o] : f \in LeafFields, o \in LeafOperators}

MalformedLeaves ==
    {[operator |-> "equals", value |-> Num(20)],
     [field |-> <<"amount">>, value |-> Num(20)],
     [field |-> <<>>, operator |-> "equals", value |-> Num(20)],
     [field |-> <<"amount">>, operator |-> "", value |-> Num(20)],
     [value |-> Num(20)]}

\* The children the trees of the model are built of: a leaf that holds of
\* every accepted transaction, one that holds of none, one that depends on
\* it, a malformed one, one of an unknown operator, null, and the empty
\* combinations
Children ==
    {[field |-> <<"status">>, operator |-> "equals", value |-> Str("processing")],
     [field |-> <<"status">>, operator |-> "is_empty"],
     [field |-> <<"amount">>, operator |-> "greater_than", value |-> Num(10000)],
     [field |-> <<"amount">>, value |-> Num(20)],
     [field |-> <<"amount">>, operator |-> "matches", value |-> Num(20)],
     Null,
     [and |-> <<>>],
     [or |-> <<>>]}

Trees ==
    {[and |-> s] : s \in SeqsUpTo(Children, MaxChildren)}
    \cup {[or |-> s] : s \in SeqsUpTo(Children, MaxChildren)}
    \cup {[not |-> c] : c \in Children}

Conditions ==
    Leaves \cup MalformedLeaves \cup Trees \cup {[not |-> c] : c \in Trees}
           \cup {Null}

\* The actions of the rules of the model: each kind with the configuration
\* its handler reads, kinds without it, an unknown kind and no kind
Actions ==
    {[type |-> "flag_transaction", config |-> [reason |-> Str("review")]],
     [type |-> "flag_transaction"],
     [type |-> "calculate_score", config |-> DefaultScoreConfig],
     [type |-> "calculate_score"],
     [type |-> "send_notification",
      config |-> [recipient |-> Str("ops"),
                  message |-> <<[text |-> "amount "],
                                [placeholder |-> <<"amount">>],
                                [placeholder |-> <<"merchant">>]>>]],
     [type |-> "send_notification", config |-> [recipient |-> Str("ops")]],
     [type |-> "log_event", config |-> [event |-> Str("seen")]],
     [type |-> "reject_transaction", config |-> [reason |-> Str("blocked")]],
     [type |-> "block_account", config |-> [reason |-> Str("blocked")]],
     [config |-> [reason |-> Str("review")]]}

ActionLists == SeqsUpTo(Actions, MaxActions)

\* The conditions of the rules given to evaluateRule
RuleConditions ==
    {[field |-> <<"status">>, operator |-> "equals", value |-> Str("processing")],
     [field |-> <<"amount">>, operator |-> "greater_than", value |-> Num(10000)],
     [field |-> <<"amount">>, operator |-> "toString"],
     [field |-> <<"amount">>, operator |-> "matches", value |-> Num(20)],
     [field |-> <<"amount">>, value |-> Num(20)],
     [and |-> <<[field |-> <<"status">>, operator |-> "is_empty"],
                [field |-> <<"amount">>, value |-> Num(20)]>>]}

Rules ==
    {[id |-> "rule", conditions |-> c, actions |-> a] :
         c \in RuleConditions, a \in ActionLists}
    \cup {[id |-> "rule", conditions |-> c] : c \in RuleConditions}
    \cup {[id |-> "rule", actions |-> a] : a \in ActionLists}

\* The rules of the rule sets given to processTransaction: by id, whether
\* the rule is enabled, its condition and its actions
SetRule(id, enabled, conditions, actions) ==
    [id |-> id, enabled |-> enabled, conditions |-> conditions,
     actions |-> actions]

Holds == [field |-> <<"status">>, operator |-> "equals",
          value |-> Str("processing")]

SetRules ==
    {SetRule("logs", Bool(TRUE), Holds,
             <<[type |-> "log_event", config |-> [event |-> Str("seen")]]>>),
     SetRule("flags", Bool(TRUE), Holds,
             <<[type |-> "log_event", config |-> [event |-> Str("seen")]],
               [type |-> "flag_transaction",
                config |-> [reason |-> Str("review")]]>>),
     SetRule("flag_fails", Bool(TRUE), Holds,
             <<[type |-> "flag_transaction"],
               [type |-> "calculate_score", config |-> DefaultScoreConfig]>>),
     SetRule("high", Bool(TRUE),
             [field |-> <<"amount">>, operator |-> "greater_than",
              value |-> Num(10000)],
             <<[type |-> "flag_transaction",
                config |-> [reason |-> Str("review")]]>>),
     SetRule("broken", Bool(TRUE),
             [field |-> <<"amount">>, operator |-> "matches",
              value |-> Num(20)],
             <<[type |-> "flag_transaction",
                config |-> [reason |-> Str("review")]]>>),
     SetRule("off", Bool(FALSE), Holds,
             <<[type |-> "flag_transaction",
                config |-> [reason |-> Str("review")]]>>),
     SetRule("off_broken", Bool(FALSE),
             [field |-> <<"amount">>, value |-> Num(20)], <<>>),
     [id |-> "plain", conditions |-> Holds]}

\* A calculate_score action whose configuration gives the points to every
\* amount from 0
ScoreAction(points) ==
    [type |-> "calculate_score",
     config |-> [threshold |-> Num(80),
                 factors |-> <<[field |-> <<"amount">>, weight |-> Num(1),
                                ranges |-> <<[min |-> Num(0), max |-> Infinity,
                                              points |-> points]>>]>>]]

\* Rules that score: 45; 100 and an action that fails; 10 on the high
\* amounts only; and a range without points, whose score is NaN
ScoringRules ==
    {SetRule("scores_45", Bool(TRUE), Holds, <<ScoreAction(Num(45))>>),
     SetRule("scores_100", Bool(TRUE), Holds,
             <<ScoreAction(Num(100)), [type |-> "calculate_score"]>>),
     SetRule("scores_high", Bool(TRUE),
             [field |-> <<"amount">>, operator |-> "greater_than",
              value |-> Num(10000)],
             <<ScoreAction(Num(10))>>),
     SetRule("scores_nan", Bool(TRUE), Holds,
             <<[type |-> "calculate_score",
                config |-> [factors |->
                               <<[field |-> <<"amount">>, weight |-> Num(1),
                                  ranges |-> <<[min |-> Num(0),
                                                max |-> Infinity]>>]>>]]>>)}

\* The rule sets PUT /api/rules stores, and the default one; the last holds
\* a null entry
RuleLists ==
    SeqsUpTo(SetRules, MaxRules)
        \cup SeqsUpTo(ScoringRules, MaxRules)
        \cup {DefaultRules, <<SetRule("logs", Bool(TRUE), Holds, <<>>), Null>>}

\* Score configurations: factors on the amount with the weights and ranges
\* a rule author may write: overlapping ranges, ranges that meet at a bound,
\* negative points, points left out, points that are not finite
Ranges ==
    {[min |-> Num(0), max |-> Num(10000), points |-> Num(60)],
     [min |-> Num(10000), max |-> Infinity, points |-> Num(90)],
     [min |-> Num(0), max |-> Infinity, points |-> Num(0 - 50)],
     [min |-> Num(0), max |-> Infinity]}

Weights == {Num(0), Num(2)}

Factors ==
    {[field |-> <<"amount">>, weight |-> w, ranges |-> r] :
         w \in Weights, r \in SeqsUpTo(Ranges, MaxRanges)}
    \cup {[field |-> <<"amount">>,
           ranges |-> <<[min |-> Num(0), max |-> Num(10000),
                         points |-> Num(60)]>>],
          [field |-> <<"amount">>, weight |-> Num(1)],
          [field |-> <<"amount">>, weight |-> Num(1),
           ranges |-> <<[min |-> Num(0), max |-> Infinity,
                         points |-> Infinity]>>],
          [field |-> <<"amount">>, weight |-> Num(1),
           ranges |-> <<[min |-> Num(0), max |-> Infinity,
                         points |-> NegInfinity]>>]}

\* One factor of several ranges, or several factors of one range each
ScoreConfigs ==
    LET single == {f \in Factors :
                      "ranges" \in DOMAIN f /\ Len(f.ranges) = 1}
    IN  {[threshold |-> Num(80), factors |-> <<f>>] : f \in Factors}
        \cup {[threshold |-> Num(80), factors |-> f] :
                  f \in SeqsUpTo(single, MaxFactors)}
        \cup {[threshold |-> Num(80)], DefaultScoreConfig}

\* The transactions the scores are computed for and the rules of the model
\* are evaluated on: their conditions read the amount and the status only,
\* the amount being above the default threshold or at it
ScoredTransactions ==
    {x \in Transactions :
         x.fields.amount \in {Num(15000), Num(10000)}
         /\ "location" \notin DOMAIN x.fields}

(* ------------------------- rule engine: the calls ----------------------- *)

\* The calls made of the rule processor, and of the monitor's evaluation of
\* one transaction (the report, then its summary); the default rule set is
\* evaluated on every accepted transaction
EngineCalls ==
    {[op |-> "parseCondition", condition |-> c, context |-> x] :
         c \in Conditions, x \in Transactions}
    \cup {[op |-> "evaluateRule", rule |-> r, transactionData |-> x] :
              r \in Rules, x \in ScoredTransactions}
    \cup {[op |-> "calculateRiskScore", config |-> c, transactionData |-> x] :
              c \in ScoreConfigs, x \in ScoredTransactions}
    \cup {[op |-> "processTransaction", rules |-> r, transactionData |-> x] :
              r \in RuleLists, x \in ScoredTransactions}
    \cup {[op |-> "processTransaction", rules |-> DefaultRules,
            transactionData |-> x] : x \in Transactions}

engineRest == <<pipelineVars, agentVars, engineCall>>

ParseConditionCall ==
    /\ engineCall.op = "parseCondition"
    /\ engineReturned.state = "pending"
    /\ engineReturned' =
           [state |-> "returned",
            value |-> parseCondition(engineCall.condition, engineCall.context)]
    /\ UNCHANGED engineRest

EvaluateRuleCall ==
    /\ engineCall.op = "evaluateRule"
    /\ engineReturned.state = "pending"
    /\ engineReturned' =
           [state |-> "returned",
            value |-> evaluateRule(engineCall.rule, engineCall.transactionData)]
    /\ UNCHANGED engineRest

CalculateRiskScoreCall ==
    /\ engineCall.op = "calculateRiskScore"
    /\ engineReturned.state = "pending"
    /\ engineReturned' =
           [state |-> "returned",
            value |-> calculateRiskScore(engineCall.config,
                                         engineCall.transactionData)]
    /\ UNCHANGED engineRest

\* this.ruleProcessor.processTransaction(this.rules, transaction)
ProcessTransactionCall ==
    /\ engineCall.op = "processTransaction"
    /\ engineReturned.state = "pending"
    /\ engineReturned' =
           [state |-> "returned",
            value |-> RuleProcessor_processTransaction(
                          engineCall.rules, engineCall.transactionData)]
    /\ UNCHANGED engineRest

\* summary: this.createResultSummary(ruleResults), when the report is there
CreateResultSummaryCall ==
    /\ engineCall.op = "processTransaction"
    /\ engineReturned.state = "returned"
    /\ engineReturned.value.ok
    /\ engineReturned' =
           [state |-> "summarised",
            value |-> engineReturned.value,
            summary |-> createResultSummary(engineReturned.value.v)]
    /\ UNCHANGED engineRest

(* ------------------- validation agent: the validators ------------------- *)

\* validationPatterns.performance.executionTimeThreshold as constructed
DefaultExecutionTimeThreshold == 1000

\* An entry of validation.issues
Issue(type, severity) == [type |-> type, severity |-> severity]

\* conditions.field && conditions.operator
IsLeaf(conditions) ==
    /\ "field" \in DOMAIN conditions
    /\ "operator" \in DOMAIN conditions
    /\ conditions.field # <<>>
    /\ conditions.operator # ""

\* calculateConditionComplexity(conditions, depth), and the reduce over
\* the children of an and/or node from the index-th
RECURSIVE calculateConditionComplexity(_, _)
RECURSIVE ReduceComplexity(_, _, _)
ReduceComplexity(children, index, depth) ==
    IF index > Len(children) THEN 0
    ELSE calculateConditionComplexity(children[index], depth)
             + ReduceComplexity(children, index + 1, depth)

calculateConditionComplexityLeavesOnly(conditions, depth) ==
    IF "t" \in DOMAIN conditions /\ Falsy(conditions) THEN 0
    ELSE IF "and" \in DOMAIN conditions
    THEN ReduceComplexity(conditions.and, 1, depth + 1)
    ELSE IF "or" \in DOMAIN conditions
    THEN ReduceComplexity(conditions.or, 1, depth + 1)
    ELSE IF "not" \in DOMAIN conditions /\ ~("t" \in DOMAIN conditions.not
                                             /\ Falsy(conditions.not))
    THEN calculateConditionComplexity(conditions.not, depth + 1) + 1
    ELSE depth + 1

calculateConditionComplexity(conditions, depth) ==
    IF "t" \in DOMAIN conditions /\ Falsy(conditions) THEN 0
    ELSE IF "and" \in DOMAIN conditions
    THEN depth + ReduceComplexity(conditions.and, 1, depth + 1)
    ELSE IF "or" \in DOMAIN conditions
    THEN depth + ReduceComplexity(conditions.or, 1, depth + 1)
    ELSE IF "not" \in DOMAIN conditions /\ ~("t" \in DOMAIN conditions.not
                                             /\ Falsy(conditions.not))
    THEN depth + calculateConditionComplexity(conditions.not, depth + 1) + 1
    ELSE depth + 1

\* flattenConditions(conditions), and its forEach over the children of an
\* and/or node from the index-th
RECURSIVE flattenConditions(_)
RECURSIVE FlattenEach(_, _)
FlattenEach(children, index) ==
    IF index > Len(children) THEN <<>>
    ELSE flattenConditions(children[index]) \o FlattenEach(children, index + 1)

flattenConditions(conditions) ==
    IF "t" \in DOMAIN conditions /\ Falsy(conditions) THEN <<>>
    ELSE IF "and" \in DOMAIN conditions THEN FlattenEach(conditions.and, 1)
    ELSE IF "or" \in DOMAIN conditions THEN FlattenEach(conditions.or, 1)
    ELSE IF "not" \in DOMAIN conditions /\ ~("t" \in DOMAIN conditions.not
                                             /\ Falsy(conditions.not))
    THEN flattenConditions(conditions.not)
    ELSE IF IsLeaf(conditions) THEN <<conditions>>
    ELSE <<>>

\* contradictoryPairs of areConditionsContradictory
contradictoryPairs ==
    <<<<"equals", "not_equals">>,
      <<"greater_than", "less_than_or_equal">>,
      <<"less_than", "greater_than_or_equal">>,
      <<"contains", "not_contains">>,
      <<"in", "not_in">>>>

areConditionsContradictoryAnyField(cond1, cond2) ==
    \E k \in 1..Len(contradictoryPairs) :
        \/ cond1.operator = contradictoryPairs[k][1]
           /\ cond2.operator = contradictoryPairs[k][2]
        \/ cond1.operator = contradictoryPairs[k][2]
           /\ cond2.operator = contradictoryPairs[k][1]

\* areConditionsContradictory(cond1, cond2)
areConditionsContradictory(cond1, cond2) ==
    IF cond1.field # cond2.field THEN FALSE
    ELSE \E k \in 1..Len(contradictoryPairs) :
             \/ cond1.operator = contradictoryPairs[k][1]
                /\ cond2.operator = contradictoryPairs[k][2]
             \/ cond1.operator = contradictoryPairs[k][2]
                /\ cond2.operator = contradictoryPairs[k][1]

\* findContradictoryConditions(conditions): the pairs pushed, for i then j
RECURSIVE ContradictionsFrom(_, _, _)
ContradictionsFrom(flatConditions, i, j) ==
    IF i > Len(flatConditions) THEN <<>>
    ELSE IF j > Len(flatConditions)
    THEN ContradictionsFrom(flatConditions, i + 1, i + 2)
    ELSE (IF areConditionsContradictory(flatConditions[i], flatConditions[j])
          THEN <<<<flatConditions[i], flatConditions[j]>>>>
          ELSE <<>>) \o ContradictionsFrom(flatConditions, i, j + 1)

findContradictoryConditions(conditions) ==
    ContradictionsFrom(flattenConditions(conditions), 1, 2)

\* analyzeRuleLogic(rule): the issues, in the order pushed
analyzeRuleLogic(rule) ==
    LET conditions == IF "conditions" \in DOMAIN rule
                      THEN rule.conditions ELSE Undefined
    IN  (IF "t" \in DOMAIN conditions /\ Falsy(conditions)
         THEN <<Issue("logic", "high")>> ELSE <<>>)
        \o (IF calculateConditionComplexity(conditions, 0) > 10
            THEN <<Issue("complexity", "warning")>> ELSE <<>>)
        \o (IF Len(findContradictoryConditions(conditions)) > 0
            THEN <<Issue("logic", "critical")>> ELSE <<>>)

\* validationPatterns.security: the regular expressions by their source,
\* all of them case-insensitive
suspiciousPatterns == <<"eval(", "function(", "new Function", "script">>
dataLeakagePatterns == <<"password", "secret", "token", "key">>

\* The patterns that match a string of the rules of the model
PatternsFound(s) ==
    CASE s = "description" -> {"script"}
      [] s = "password" -> {"password"}
      [] s = "apiKey" -> {"key"}
      [] s = "eval(amount)" -> {"eval("}
      [] OTHER -> {}

\* The names and strings JSON.stringify writes for a condition tree
RECURSIVE ConditionStrings(_)
ConditionStrings(conditions) ==
    IF "t" \in DOMAIN conditions THEN {}
    ELSE DOMAIN conditions
         \cup (IF "and" \in DOMAIN conditions
               THEN UNION {ConditionStrings(conditions.and[i]) :
                               i \in 1..Len(conditions.and)} ELSE {})
         \cup (IF "or" \in DOMAIN conditions
               THEN UNION {ConditionStrings(conditions.or[i]) :
                               i \in 1..Len(conditions.or)} ELSE {})
         \cup (IF "not" \in DOMAIN conditions
               THEN ConditionStrings(conditions.not) ELSE {})
         \cup (IF "field" \in DOMAIN conditions
               THEN {conditions.field[i] : i \in 1..Len(conditions.field)}
               ELSE {})
         \cup (IF "operator" \in DOMAIN conditions
               THEN {conditions.operator} ELSE {})
         \cup (IF "value" \in DOMAIN conditions
                  /\ conditions.value.t = "string"
               THEN {conditions.value.s} ELSE {})

\* The names and strings of JSON.stringify(rule), for a rule of id,
\* description, conditions and actions of type and config.reason
RuleStrings(rule) ==
    DOMAIN rule
    \cup {rule.id}
    \cup (IF "description" \in DOMAIN rule THEN {rule.description.s} ELSE {})
    \cup (IF "conditions" \in DOMAIN rule
          THEN ConditionStrings(rule.conditions) ELSE {})
    \cup (IF "actions" \in DOMAIN rule
          THEN UNION {{"type", "config", "reason", rule.actions[i].type,
                       rule.actions[i].config.reason.s} :
                          i \in 1..Len(rule.actions)}
          ELSE {})

\* pattern.test(ruleString)
PatternTest(pattern, rule) ==
    \E s \in RuleStrings(rule) : pattern \in PatternsFound(s)

\* analyzeRuleSecurity(rule): the issues, in the order pushed
analyzeRuleSecurity(rule) ==
    LET found(patterns, severity) ==
            [i \in 1..Len(patterns) |->
                IF PatternTest(patterns[i], rule)
                THEN <<Issue("security", severity)>> ELSE <<>>]
        s == found(suspiciousPatterns, "critical")
        d == found(dataLeakagePatterns, "warning")
    IN  s[1] \o s[2] \o s[3] \o s[4] \o d[1] \o d[2] \o d[3] \o d[4]

\* validateRuleLogic(data), for data that holds a rule
validateRuleLogic(data) ==
    LET issues == analyzeRuleLogic(data.rule) \o analyzeRuleSecurity(data.rule)
        score == 100 - Len(issues) * IssuePenalty
    IN  [passed |-> score >= PassingScore, issues |-> issues, score |-> score]

validateRuleExecutionFlatPenalty(data, executionTimeThreshold) ==
    LET ruleResult == data.ruleResult
        slow == ruleResult.executionTime > executionTimeThreshold
        failed == ~Falsy(ruleResult.error)
        differs == "expectedResult" \in DOMAIN data
                   /\ ~StrictEquals(ruleResult.result, data.expectedResult)
        actionFailed == "actions" \in DOMAIN ruleResult
                        /\ \E i \in 1..Len(ruleResult.actions) :
                               ~ruleResult.actions[i].success
        issues == (IF slow THEN <<Issue("performance", "warning")>> ELSE <<>>)
                  \o (IF failed THEN <<Issue("error", "critical")>> ELSE <<>>)
                  \o (IF differs THEN <<Issue("accuracy", "high")>> ELSE <<>>)
                  \o (IF actionFailed
                      THEN <<Issue("action_failure", "high")>> ELSE <<>>)
    IN  [passed |-> ~failed, issues |-> issues,
         score |-> 100 - Len(issues) * IssuePenalty]

\* validateRuleExecution(data), for data that holds a rule result and the
\* transaction, under the execution time threshold of the moment
validateRuleExecution(data, executionTimeThreshold) ==
    LET ruleResult == data.ruleResult
        slow == ruleResult.executionTime > executionTimeThreshold
        failed == ~Falsy(ruleResult.error)
        differs == "expectedResult" \in DOMAIN data
                   /\ ~StrictEquals(ruleResult.result, data.expectedResult)
        actionFailed == "actions" \in DOMAIN ruleResult
                        /\ \E i \in 1..Len(ruleResult.actions) :
                               ~ruleResult.actions[i].success
        issues == (IF slow THEN <<Issue("performance", "warning")>> ELSE <<>>)
                  \o (IF failed THEN <<Issue("error", "critical")>> ELSE <<>>)
                  \o (IF differs THEN <<Issue("accuracy", "high")>> ELSE <<>>)
                  \o (IF actionFailed
                      THEN <<Issue("action_failure", "high")>> ELSE <<>>)
    IN  [passed |-> ~failed, issues |-> issues,
         score |-> 100 - (IF slow THEN 10 ELSE 0) - (IF failed THEN 50 ELSE 0)
                       - (IF differs THEN 30 ELSE 0)
                       - (IF actionFailed THEN 20 ELSE 0)]

(* ------------------- validation agent: what it is given ----------------- *)

\* Nesting depth of the condition trees given to the validators
MaxDepth == 3

\* Leaves of the rules validated: two fields, the operators of the
\* contradiction table and one outside it
LogicFields == {<<"amount">>, <<"location", "country">>}

LogicOperators ==
    {"equals", "not_equals", "greater_than", "less_than_or_equal",
     "less_than", "greater_than_or_equal", "contains", "not_contains",
     "in", "not_in", "is_empty"}

LogicLeaves ==
    {[field |-> f, operator |-> o, value |-> Num(100)] :
         f \in LogicFields, o \in LogicOperators}
    \cup {[field |-> <<"amount">>, value |-> Num(100)], Null}

\* Trees of leaves: combinations of up to two leaves, and leaves one and
\* two levels down
LeafLists ==
    {<<>>} \cup {<<a>> : a \in LogicLeaves}
           \cup {<<a, b>> : a, b \in LogicLeaves}

LeafTrees ==
    {[and |-> s] : s \in LeafLists}
    \cup {[or |-> s] : s \in LeafLists}
    \cup {[not |-> a] : a \in LogicLeaves}
    \cup {[and |-> <<a, [or |-> <<b>>]>>] : a, b \in LogicLeaves}
    \cup {[or |-> <<[not |-> a], [and |-> <<[not |-> b]>>]>>] :
              a, b \in LogicLeaves}

\* Shapes: trees of one leaf nested up to MaxDepth levels, each and/or node
\* holding one subtree and up to MaxChildren - 1 leaves after it
RECURSIVE Shapes(_)
Shapes(depth) ==
    LET leaf == [field |-> <<"amount">>, operator |-> "greater_than",
                 value |-> Num(100)]
    IN  IF depth = 0 THEN {leaf}
        ELSE LET below == Shapes(depth - 1)
             IN  below
                 \cup {[and |-> <<>>], [or |-> <<>>]}
                 \cup {[and |-> <<t>> \o [i \in 1..n |-> leaf]] :
                           t \in below, n \in 0..(MaxChildren - 1)}
                 \cup {[or |-> <<t>> \o [i \in 1..n |-> leaf]] :
                           t \in below, n \in 0..(MaxChildren - 1)}
                 \cup {[not |-> t] : t \in below}

\* The condition trees given to the validators
LogicConditions == LeafTrees \cup LogicLeaves \cup Shapes(MaxDepth)

\* The rules given to validateRuleLogic: a rule of each condition tree, and
\* rules without conditions, with a description, with a field or a value
\* that a pattern matches, with actions
LogicRules ==
    {[id |-> "rule", conditions |-> c] : c \in LogicConditions}
    \cup {[id |-> "rule", description |-> Str("flags large amounts"),
           conditions |-> c,
           actions |-> <<[type |-> "flag_transaction",
                          config |-> [reason |-> Str("review")]]>>] :
              c \in LogicLeaves \cup Shapes(1)}
    \cup {[id |-> "rule"],
          [id |-> "rule", description |-> Str("flags large amounts")],
          [id |-> "rule",
           conditions |-> [field |-> <<"user", "password">>,
                           operator |-> "is_empty"]],
          [id |-> "rule",
           conditions |-> [and |-> <<[field |-> <<"apiKey">>,
                                      operator |-> "equals",
                                      value |-> Str("eval(amount)")],
                                     [field |-> <<"apiKey">>,
                                      operator |-> "not_equals",
                                      value |-> Str("password")]>>]]}

\* The rule results given to validateRuleExecution, with the time their
\* evaluation took, and what comes with them
ExecutionTimes == {5, 1000, 1001, 1501}

ExecutedActionLists ==
    {<<>>,
     <<[type |-> "log_event", success |-> TRUE]>>,
     <<[type |-> "flag_transaction", success |-> FALSE],
       [type |-> "log_event", success |-> TRUE]>>}

RuleExecutions ==
    {[ruleId |-> "rule", result |-> r, error |-> e, executionTime |-> t,
      actions |-> a] :
         r \in {Bool(TRUE), Bool(FALSE)},
         e \in {Null, Str(UnsupportedOperator)},
         t \in ExecutionTimes, a \in ExecutedActionLists}
    \cup {[ruleId |-> "rule", result |-> Bool(TRUE), error |-> Null,
           executionTime |-> t] : t \in ExecutionTimes}

ExecutionData ==
    {[ruleResult |-> r] : r \in RuleExecutions}
    \cup {[ruleResult |-> r, expectedResult |-> x] :
              r \in RuleExecutions, x \in {Bool(TRUE), Bool(FALSE), Null}}

\* executionTimeThreshold: as constructed, and as analyzeRulePerformance
\* sets it from the history
ExecutionTimeThresholds == {DefaultExecutionTimeThreshold, 1500}

(* --------------------- validation agent: validator calls ---------------- *)

ValidatorCalls ==
    {[op |-> "calculateConditionComplexity", conditions |-> c] :
         c \in LogicConditions}
    \cup {[op |-> "findContradictoryConditions", conditions |-> c] :
              c \in LogicConditions}
    \cup {[op |-> "validateRuleLogic", data |-> [rule |-> r]] :
              r \in LogicRules}
    \cup {[op |-> "validateRuleExecution", data |-> d, threshold |-> t] :
              d \in ExecutionData, t \in ExecutionTimeThresholds}

CalculateConditionComplexityCall ==
    /\ engineCall.op = "calculateConditionComplexity"
    /\ engineReturned.state = "pending"
    /\ engineReturned' =
           [state |-> "returned",
            value |-> calculateConditionComplexity(engineCall.conditions, 0)]
    /\ UNCHANGED engineRest

FindContradictoryConditionsCall ==
    /\ engineCall.op = "findContradictoryConditions"
    /\ engineReturned.state = "pending"
    /\ engineReturned' =
           [state |-> "returned",
            value |-> findContradictoryConditions(engineCall.conditions)]
    /\ UNCHANGED engineRest

ValidateRuleLogicCall ==
    /\ engineCall.op = "validateRuleLogic"
    /\ engineReturned.state = "pending"
    /\ engineReturned' =
           [state |-> "returned",
            value |-> validateRuleLogic(engineCall.data)]
    /\ UNCHANGED engineRest

ValidateRuleExecutionCall ==
    /\ engineCall.op = "validateRuleExecution"
    /\ engineReturned.state = "pending"
    /\ engineReturned' =
           [state |-> "returned",
            value |-> validateRuleExecution(engineCall.data,
                                            engineCall.threshold)]
    /\ UNCHANGED engineRest

(* ------------------------------ initial state --------------------------- *)

InitPipeline ==
    /\ isProcessing = FALSE
    /\ transactionQueue = <<>>
    /\ processingQueue = <<>>
    /\ rules = "empty"
    /\ transactionHistory = <<>>
    /\ metrics = [totalTransactions |-> 0, processedTransactions |-> 0,
                  failedTransactions |-> 0]
    /\ tx = <<>>
    /\ statusLog = <<>>
    /\ emitted = [transaction_queued |-> 0, transaction_processed |-> 0,
                  transaction_failed |-> 0, rules_updated |-> "none"]
    /\ lastLifecycle = "none"
    /\ lastSubmit = "returned"
    /\ immediates = 0
    /\ retryTimers = {}
    /\ loopTimers = 0
    /\ stopWaiting = FALSE
    /\ pc = "idle"
    /\ awaiting = <<>>
    /\ websocketClients = {}

\* No call of the rule processor is made
InitEngine ==
    /\ engineCall = [op |-> "none"]
    /\ engineReturned = [state |-> "none"]

InitAgent ==
    /\ isRunning = FALSE
    /\ validationQueue = <<>>
    /\ activeValidations = {}
    /\ validationHistory = <<>>
    /\ anomalies = <<>>
    /\ errorRateThreshold = DefaultErrorRateThreshold
    /\ inProgress = <<>>
    /\ historyLog = <<>>
    /\ agentEmitted = [validation_queued |-> 0, validation_completed |-> 0,
                       validation_failed |-> 0, anomaly_detected |-> 0]
    /\ valSeq = 0
    /\ agentImmediates = 0
    /\ agentPc = "init"
    /\ detectPasses = 0

Init ==
    /\ config \in Configs
    /\ agentConfig = [maxConcurrentValidations |-> DefaultMaxConcurrentValidations]
    /\ InitPipeline
    /\ InitAgent
    /\ InitEngine

\* The agent alone, with a pipeline that is never started: it begins after
\* n validations have completed, n in SeedLengths.
InitAgentSeeded ==
    /\ config = [autoProcessTransactions |-> TRUE,
                 enableRealTimeProcessing |-> TRUE,
                 batchSize |-> DefaultBatchSize,
                 maxRetries |-> DefaultMaxRetries, aiValidator |-> TRUE,
                 broadcast |-> TRUE]
    /\ InitPipeline
    /\ agentConfig \in AgentConfigs
    /\ isRunning = FALSE
    /\ validationQueue = <<>>
    /\ activeValidations = {}
    /\ \E n \in SeedLengths :
           /\ validationHistory = SeedHistory(n)
           /\ historyLog = [i \in 1..n |-> i]
           /\ valSeq = n
    /\ anomalies = <<>>
    /\ errorRateThreshold = DefaultErrorRateThreshold
    /\ inProgress = <<>>
    /\ agentEmitted = [validation_queued |-> 0, validation_completed |-> 0,
                       validation_failed |-> 0, anomaly_detected |-> 0]
    /\ agentImmediates = 0
    /\ agentPc = "init"
    /\ detectPasses = 0
    /\ InitEngine

\* The rule processor alone, with a pipeline and an agent that are never
\* started: one call of it is made.
InitRules ==
    /\ config = [autoProcessTransactions |-> TRUE,
                 enableRealTimeProcessing |-> TRUE,
                 batchSize |-> DefaultBatchSize,
                 maxRetries |-> DefaultMaxRetries, aiValidator |-> TRUE,
                 broadcast |-> TRUE]
    /\ agentConfig = [maxConcurrentValidations |-> DefaultMaxConcurrentValidations]
    /\ InitPipeline
    /\ InitAgent
    /\ engineCall \in EngineCalls
    /\ engineReturned = [state |-> "pending"]

\* The agent's validators alone, with a pipeline and an agent that are never
\* started: one call of a validator is made.
InitValidators ==
    /\ config = [autoProcessTransactions |-> TRUE,
                 enableRealTimeProcessing |-> TRUE,
                 batchSize |-> DefaultBatchSize,
                 maxRetries |-> DefaultMaxRetries, aiValidator |-> TRUE,
                 broadcast |-> TRUE]
    /\ agentConfig = [maxConcurrentValidations |-> DefaultMaxConcurrentValidations]
    /\ InitPipeline
    /\ InitAgent
    /\ engineCall \in ValidatorCalls
    /\ engineReturned = [state |-> "pending"]

Next ==
    \/ \E d \in Docs : MonitorTransaction(d)
    \/ Start
    \/ Stop
    \/ StopResumes
    \/ LoopTimerFires
    \/ ImmediateFires
    \/ \E t \in retryTimers : RetryTimerFires(t)
    \/ Finally
    \/ BatchSettles
    \/ \E r \in NewRuleSets : UpdateRules(r)
    \/ \E ws \in Clients : ClientConnects(ws)
    \/ \E ws \in Clients : ClientCloses(ws)

Spec == Init /\ [][Next]_vars

\* The pipeline with its validation agent, its rules replaced also by a set
\* whose rules fail.
InitValidated ==
    /\ config \in ValidatedConfigs
    /\ agentConfig = [maxConcurrentValidations |-> DefaultMaxConcurrentValidations]
    /\ InitPipeline
    /\ InitAgent
    /\ InitEngine

NextValidated ==
    \/ \E d \in Docs : MonitorTransaction(d)
    \/ Start
    \/ Stop
    \/ StopResumes
    \/ LoopTimerFires
    \/ ImmediateFires
    \/ \E t \in retryTimers : RetryTimerFires(t)
    \/ Finally
    \/ BatchSettles
    \/ \E r \in NewRuleSets \cup FailingRuleSets : UpdateRules(r)
    \/ \E ws \in Clients : ClientConnects(ws)
    \/ \E ws \in Clients : ClientCloses(ws)

SpecValidated == InitValidated /\ [][NextValidated]_vars

\* The timers of the event loop run their callbacks once they are due, and
\* an awaited promise that has settled resumes its function: the drain loop's
\* timer and the retry timers are served however often other callbacks run
\* in between.  LoopTimerDue is ENABLED <<LoopTimerFires>>_vars (the step
\* always takes a timer off), so the first conjunct is SF_vars(LoopTimerFires).
LoopTimerDue == Idle /\ loopTimers > 0

Fairness ==
    /\ (<>[]~LoopTimerDue) \/ ([]<><<LoopTimerFires>>_vars)
    /\ \A t \in 1..MaxTx : SF_vars(RetryTimerFires(t))
    /\ WF_vars(Finally)
    /\ WF_vars(BatchSettles)

\* The monitors with auto-processing that the liveness is checked for: the
\* server's, and one that retries
FairConfigs ==
    { [autoProcessTransactions |-> TRUE, enableRealTimeProcessing |-> TRUE,
       batchSize |-> DefaultBatchSize, maxRetries |-> 1,
       aiValidator |-> TRUE, broadcast |-> TRUE],
      [autoProcessTransactions |-> TRUE, enableRealTimeProcessing |-> FALSE,
       batchSize |-> 1, maxRetries |-> 2,
       aiValidator |-> FALSE, broadcast |-> FALSE] }

InitFair ==
    /\ config \in FairConfigs
    /\ agentConfig = [maxConcurrentValidations |-> DefaultMaxConcurrentValidations]
    /\ InitPipeline
    /\ InitAgent
    /\ InitEngine

SpecFair == InitFair /\ [][Next]_vars /\ Fairness

NextAgent ==
    \/ \E r \in ValidationRequests : QueueValidationRequest(r)
    \/ AgentImmediateFires
    \/ AgentStart
    \/ \E file \in HistoryFiles : AgentLoaded(file)
    \/ Tick
    \/ TickDetects
    \/ \E i \in 1..Len(inProgress) : ValidationSettles(i)
    \/ \E i \in 1..Len(inProgress) : SaveCompletes(i)
    \/ \E i \in 1..Len(inProgress) : ValidationFinally(i)

SpecAgent == InitAgentSeeded /\ [][NextAgent]_vars

NextRules ==
    \/ ParseConditionCall
    \/ EvaluateRuleCall
    \/ CalculateRiskScoreCall
    \/ ProcessTransactionCall
    \/ CreateResultSummaryCall

SpecRules == InitRules /\ [][NextRules]_vars

NextValidators ==
    \/ CalculateConditionComplexityCall
    \/ FindContradictoryConditionsCall
    \/ ValidateRuleLogicCall
    \/ ValidateRuleExecutionCall

SpecValidators == InitValidators /\ [][NextValidators]_vars

(* ------------------------------- properties ----------------------------- *)

\* C1: with maxRetries = N, a transaction whose evaluation throws on every
\* attempt goes pending -> processing -> failed exactly N times and then
\* stays failed.  No transaction is taken more than N times, fails more than
\* N times or is put back by a retry timer more than N - 1 times; a pending
\* one has failed fewer than N times.  One that never completed has failed
\* at every attempt; it is failed exactly when it has been taken N times, and
\* then its last attempt went pending, processing, failed and it is neither
\* in the inbound queue nor awaited by a retry timer.
RetryLimit ==
    \A t \in 1..Len(tx) :
        /\ tx[t].attempts <= config.maxRetries
        /\ tx[t].retryCount <= config.maxRetries
        /\ tx[t].requeues < config.maxRetries
        /\ tx[t].status = "pending" => tx[t].retryCount < config.maxRetries
        /\ (\A i \in 1..Len(transactionHistory) :
                transactionHistory[i].transactionId # t)
           => /\ tx[t].retryCount = tx[t].attempts
              /\ tx[t].status = "failed" <=> tx[t].attempts = config.maxRetries
              /\ tx[t].status = "failed"
                 => /\ statusLog[t] = <<"pending", "processing", "failed">>
                    /\ t \notin retryTimers
                    /\ \A i \in 1..Len(transactionQueue) :
                           transactionQueue[i] # t

\* C1 happens: with maxRetries = 3 a transaction that never completed was
\* taken three times, the last two from a retry, and is failed.
RetryLimitReached ==
    /\ config.maxRetries = DefaultMaxRetries
    /\ \E t \in 1..Len(tx) :
           /\ tx[t].status = "failed"
           /\ tx[t].attempts = DefaultMaxRetries
           /\ tx[t].requeues = DefaultMaxRetries - 1
           /\ \A i \in 1..Len(transactionHistory) :
                  transactionHistory[i].transactionId # t

\* C2: every accepted transaction's status is pending, processing, completed
\* or failed, and it changes only along pending -> processing,
\* processing -> completed, processing -> failed and, while retryCount is
\* below maxRetries, failed -> pending; completed is left by no transition.
StatusMachine ==
    \A t \in 1..Len(tx) :
        /\ tx[t].status \in {"pending", "processing", "completed", "failed"}
        /\ \A i \in 1..(Len(statusLog[t]) - 1) :
               \/ statusLog[t][i] = "pending"
                  /\ statusLog[t][i + 1] = "processing"
               \/ statusLog[t][i] = "processing"
                  /\ statusLog[t][i + 1] \in {"completed", "failed"}
               \/ statusLog[t][i] = "failed"
                  /\ statusLog[t][i + 1] = "pending"
                  /\ tx[t].retryCount < config.maxRetries

\* C3: monitorTransaction throws InvalidTransaction exactly when the document
\* lacks amount, userId or type, or amount is not a non-negative number, or
\* userId is empty, or type is not a string.
InvalidExactlyWhenMalformed ==
    [][\A d \in Docs :
           MonitorTransaction(d)
           => ((lastSubmit' = "InvalidTransaction")
               <=> ~(/\ d.t = "object"
                     /\ \A i \in 1..Len(requiredFields) :
                            HasField(d, requiredFields[i])
                     /\ d.fields.amount.t = "number"
                     /\ "n" \in DOMAIN d.fields.amount
                     /\ d.fields.amount.n >= 0
                     /\ ~Falsy(d.fields.userId)
                     /\ d.fields.type.t = "string"))]_vars

\* C4: a monitorTransaction call that throws InvalidTransaction leaves the
\* inbound queue, the in-flight set, the history, every metric, the emitted
\* events and the scheduled immediate drains as they were.
RejectedSubmitChangesNothing ==
    [][\/ UNCHANGED <<transactionQueue, processingQueue, transactionHistory,
                      metrics, emitted, immediates, tx, retryTimers>>
       \/ lastSubmit' # "InvalidTransaction"
       \/ \A d \in Docs : ~MonitorTransaction(d)]_vars

\* C4 happens: a call was rejected while transactions were queued, counted
\* and an immediate drain was scheduled.
RejectedWhileQueued ==
    /\ lastSubmit = "InvalidTransaction"
    /\ Len(transactionQueue) > 0
    /\ metrics.totalTransactions > 0
    /\ immediates > 0

\* C9: when stop() returns, the inbound queue and the in-flight set are
\* empty, and every accepted transaction was carried to the end of its
\* attempt: it is completed, failed, or pending with its retry timer set.
StopDrains ==
    [][(lastLifecycle = "started" /\ lastLifecycle' = "stopped")
       => /\ transactionQueue' = <<>>
          /\ processingQueue' = <<>>
          /\ \A t \in 1..Len(tx') :
                 \/ tx'[t].status \in {"completed", "failed"}
                 \/ tx'[t].status = "pending" /\ t \in retryTimers']_vars

\* C9 happens: stop() has returned on a monitor that pulls neither from a
\* loop nor on submission, so stop() itself processed the two transactions.
StoppedAfterDrain ==
    /\ lastLifecycle = "stopped"
    /\ ~config.autoProcessTransactions
    /\ ~config.enableRealTimeProcessing
    /\ metrics.processedTransactions >= 2

\* C10: once stop() has returned and until start() is called again, no
\* transaction is moved from the inbound queue into the in-flight set.
NoPullAfterStop ==
    [][(lastLifecycle = "stopped" /\ lastLifecycle' = "stopped")
       => \A t \in 1..Len(tx) : tx'[t].attempts = tx[t].attempts]_vars

\* C5: the active set never holds more than maxConcurrentValidations
\* validations.
ConcurrencyCeiling ==
    Cardinality(activeValidations) <= agentConfig.maxConcurrentValidations

\* C5 happens: the active set is full while a validation waits in the queue.
CeilingReached ==
    /\ Cardinality(activeValidations) = agentConfig.maxConcurrentValidations
    /\ Len(validationQueue) > 0

\* C6: the validation history never holds more than 1000 entries, and its
\* entries are the 1000 most recent of the entries ever pushed, in order.
HistoryBounded ==
    /\ Len(validationHistory) <= ValidationHistoryCap
    /\ [i \in 1..Len(validationHistory) |-> validationHistory[i].id]
           = LastN(historyLog, ValidationHistoryCap)

\* C7: a detectAnomalies pass made while the history holds fewer than 10
\* entries appends no anomaly and emits no anomaly_detected.
NoAnomalyBelowMinimum ==
    [][(detectPasses' = detectPasses + 1
        /\ Len(validationHistory) < AnomalyMinimum)
       => /\ anomalies' = anomalies
          /\ agentEmitted'.anomaly_detected = agentEmitted.anomaly_detected]_vars

\* C7 happens: a pass was made over a history of fewer than 10 entries, one
\* of them a validation that errored, and no anomaly is recorded.
PassBelowMinimum ==
    /\ detectPasses > 0
    /\ Len(validationHistory) \in 1..(AnomalyMinimum - 1)
    /\ \E i \in 1..Len(validationHistory) : validationHistory[i].status = "failed"
    /\ anomalies = <<>>
    /\ agentEmitted.anomaly_detected = 0

\* C8: a detectAnomalies pass over a history of at least 10 entries appends
\* an anomaly and emits anomaly_detected exactly when, among the last 100
\* entries, those that errored or whose result did not pass are a share
\* strictly above the threshold.
AnomalyExactlyAboveThreshold ==
    [][(detectPasses' = detectPasses + 1
        /\ Len(validationHistory) >= AnomalyMinimum)
       => LET window == LastN(validationHistory, AnomalyWindow)
              failed == Cardinality(
                  {i \in 1..Len(window) :
                      IF window[i].status = "failed" THEN TRUE
                      ELSE ~window[i].result.passed})
          IN  (/\ Len(anomalies') = Len(anomalies) + 1
               /\ agentEmitted'.anomaly_detected
                      = agentEmitted.anomaly_detected + 1)
              <=> (failed * errorRateThreshold.den
                       > errorRateThreshold.num * Len(window))]_vars

\* C11: a validation of a type processValidation does not know is surfaced
\* as a failed validation and stops nothing: when its promise settles, the
\* validation is pushed to the history with status failed, validation_failed
\* is emitted once and validation_completed is not, and the agent keeps
\* running with its loop where it was; its slot is then freed (the finally
\* reaction is ready and the active set holds exactly the validations whose
\* chain has not ended).
UnknownTypeFailsNotFatal ==
    /\ [](/\ activeValidations
               = {inProgress[i].id : i \in 1..Len(inProgress)}
          /\ \A i \in 1..Len(inProgress) :
                 (inProgress[i].stage = "settled"
                  /\ inProgress[i].type \notin KnownValidationTypes)
                 => ENABLED ValidationFinally(i)
          /\ \A i \in 1..Len(validationHistory) :
                 validationHistory[i].type \notin KnownValidationTypes
                 => validationHistory[i].status = "failed")
    /\ [][\A i \in 1..Len(inProgress) :
              (ValidationSettles(i)
               /\ inProgress[i].type \notin KnownValidationTypes)
              => /\ validationHistory'[Len(validationHistory')]
                        = FailedEntry(inProgress[i].id, inProgress[i].type)
                 /\ agentEmitted'.validation_failed
                        = agentEmitted.validation_failed + 1
                 /\ agentEmitted'.validation_completed
                        = agentEmitted.validation_completed
                 /\ inProgress'[i].stage = "settled"
                 /\ UNCHANGED <<isRunning, agentPc, validationQueue>>]_vars

\* C11 happens: a validation of unknown type has failed and left the active
\* set, a validation queued after it has completed, and the loop has made
\* a pass since.
LaterValidationAfterUnknownType ==
    /\ detectPasses > 0
    /\ \E i \in 1..Len(validationHistory) :
           /\ validationHistory[i].type \notin KnownValidationTypes
           /\ validationHistory[i].status = "failed"
           /\ validationHistory[i].id \notin activeValidations
           /\ \E j \in (i + 1)..Len(validationHistory) :
                  /\ validationHistory[j].id > validationHistory[i].id
                  /\ validationHistory[j].status = "completed"

\* The condition tree of a rule raises an error on the transaction
ConditionsRaise(rule, transactionData) ==
    /\ "conditions" \in DOMAIN rule
    /\ ~("t" \in DOMAIN rule.conditions /\ Falsy(rule.conditions))
    /\ ~parseCondition(rule.conditions, transactionData).ok

\* The rules of a rule set that are not switched off, in order
NotSwitchedOff(ruleList) ==
    SelectSeq(ruleList,
              LAMBDA r : ~("enabled" \in DOMAIN r /\ r.enabled = Bool(FALSE)))

\* C12: when the condition tree of a rule raises an error, evaluateRule
\* returns a result that is not triggered, carries the error's message and
\* has no action results; and processTransaction, given rules, returns a
\* report with one result per enabled rule, the rules after a defective one
\* included, the defective ones reported as above: it raises nothing.
DefectiveRuleIsReported ==
    /\ (/\ engineCall.op = "evaluateRule"
        /\ engineReturned.state = "returned"
        /\ ConditionsRaise(engineCall.rule, engineCall.transactionData))
       => /\ engineReturned.value.result = Bool(FALSE)
          /\ engineReturned.value.error
                 = Str(parseCondition(engineCall.rule.conditions,
                                      engineCall.transactionData).error)
          /\ engineReturned.value.error.s
                 \in {MalformedCondition, UnsupportedOperator, TypeError}
          /\ engineReturned.value.actions = <<>>
    /\ (/\ engineCall.op = "processTransaction"
        /\ engineReturned.state = "returned"
        /\ \A i \in 1..Len(engineCall.rules) :
               "t" \notin DOMAIN engineCall.rules[i])
       => /\ engineReturned.value.ok
          /\ LET evaluated == NotSwitchedOff(engineCall.rules)
                 results == engineReturned.value.v.results
             IN  /\ Len(results) = Len(evaluated)
                 /\ \A i \in 1..Len(results) :
                        /\ results[i].ruleId = evaluated[i].id
                        /\ ConditionsRaise(evaluated[i],
                                           engineCall.transactionData)
                           => /\ results[i].result = Bool(FALSE)
                              /\ results[i].error # Null
                              /\ results[i].actions = <<>>
                        /\ ~ConditionsRaise(evaluated[i],
                                            engineCall.transactionData)
                           => results[i].error = Null

\* C12 happens: a report in which a rule whose condition raised comes
\* before a rule that was evaluated and triggered.
DefectiveRuleThenTriggeredRule ==
    /\ engineCall.op = "processTransaction"
    /\ engineReturned.state = "returned"
    /\ engineReturned.value.ok
    /\ \E i, j \in 1..Len(engineReturned.value.v.results) :
           /\ i < j
           /\ engineReturned.value.v.results[i].error # Null
           /\ engineReturned.value.v.results[j].error = Null
           /\ ~Falsy(engineReturned.value.v.results[j].result)
           /\ Len(engineReturned.value.v.results[j].actions) > 0

\* An action written as the data model has it: one of the five kinds, with
\* the configuration its handler reads
ActionCanRun(action) ==
    /\ "type" \in DOMAIN action
    /\ action.type \in {"flag_transaction", "send_notification",
                        "calculate_score", "log_event", "reject_transaction"}
    /\ "config" \in DOMAIN action
    /\ action.type = "send_notification" => "message" \in DOMAIN action.config

\* C13: a rule that did not trigger has an empty list of action results; a
\* rule that triggered has one action result per action, in the order of
\* the actions: that of an action that can run succeeded and carries its
\* result, that of an action of an unknown kind or without the configuration
\* its handler reads failed, with the error in its own entry, and the
\* actions after it were run all the same.
ActionsRunInIsolation ==
    (/\ engineCall.op = "evaluateRule"
     /\ engineReturned.state = "returned"
     /\ "actions" \in DOMAIN engineCall.rule)
    => LET given == engineCall.rule.actions
           run == engineReturned.value.actions
       IN  IF Falsy(engineReturned.value.result)
           THEN run = <<>>
           ELSE /\ Len(run) = Len(given)
                /\ engineReturned.value.error = Null
                /\ \A i \in 1..Len(given) :
                       /\ "type" \in DOMAIN given[i]
                          => run[i].type = given[i].type
                       /\ run[i].success = ActionCanRun(given[i])
                       /\ run[i].success
                          => /\ run[i].result # Null
                             /\ "error" \notin DOMAIN run[i]
                       /\ ~run[i].success
                          => /\ run[i].result = Null
                             /\ run[i].error \in {UnknownActionType, TypeError}
                             /\ run[i].error = UnknownActionType
                                <=> ~("type" \in DOMAIN given[i]
                                      /\ given[i].type \in ActionKinds)

\* C13 happens: a triggered rule of two actions whose first action failed
\* and whose second action succeeded.
FailedActionThenSuccessfulAction ==
    /\ engineCall.op = "evaluateRule"
    /\ engineReturned.state = "returned"
    /\ ~Falsy(engineReturned.value.result)
    /\ "actions" \in DOMAIN engineCall.rule
    /\ Len(engineCall.rule.actions) = 2
    /\ Len(engineReturned.value.actions) = 2
    /\ ~engineReturned.value.actions[1].success
    /\ engineReturned.value.actions[2].success

\* C14: the report of processTransaction lists the results of the rules
\* whose enabled is not false, in the order of the rule set, and of no
\* other rule; its counts count these rules only, so that a switched-off
\* rule whose condition would raise adds no error: it is not evaluated.
DisabledRulesSkipped ==
    (/\ engineCall.op = "processTransaction"
     /\ engineReturned.state = "returned"
     /\ \A i \in 1..Len(engineCall.rules) :
            "t" \notin DOMAIN engineCall.rules[i])
    => /\ engineReturned.value.ok
       /\ LET kept == NotSwitchedOff(engineCall.rules)
              report == engineReturned.value.v
              triggered == {i \in 1..Len(kept) :
                               ~Falsy(report.results[i].result)}
              raised == {i \in 1..Len(kept) :
                            ConditionsRaise(kept[i],
                                            engineCall.transactionData)}
          IN  /\ Len(report.results) = Len(kept)
              /\ \A i \in 1..Len(kept) :
                     /\ report.results[i].ruleId = kept[i].id
                     /\ report.results[i]
                            = evaluateRule(kept[i], engineCall.transactionData)
              /\ report.totalRules = Len(kept)
              /\ report.passedRules = Cardinality(triggered)
              /\ report.failedRules = Len(kept) - Cardinality(triggered)
              /\ report.errors = Cardinality(raised)

\* C14 happens: a rule set of three rules whose second rule is switched off
\* and has a condition that would raise, reported as two results, no error.
DisabledRuleBetweenEnabledRules ==
    /\ engineCall.op = "processTransaction"
    /\ engineReturned.state = "returned"
    /\ engineReturned.value.ok
    /\ Len(engineCall.rules) = 3
    /\ "enabled" \in DOMAIN engineCall.rules[2]
    /\ engineCall.rules[2].enabled = Bool(FALSE)
    /\ ConditionsRaise(engineCall.rules[2], engineCall.transactionData)
    /\ engineCall.rules[1].id # engineCall.rules[3].id
    /\ Len(engineReturned.value.v.results) = 2
    /\ engineReturned.value.v.results[1].ruleId = engineCall.rules[1].id
    /\ engineReturned.value.v.results[2].ruleId = engineCall.rules[3].id
    /\ engineReturned.value.v.totalRules = 2
    /\ engineReturned.value.v.errors = 0

\* The two empty combinations
EmptyAnd == [and |-> <<>>]
EmptyOr == [or |-> <<>>]

\* C15: on every transaction an And of no children evaluates to true and an
\* Or of no children to false, also as the child of a Not and as children
\* of an And or an Or: an And of empty combinations is true exactly when no
\* child is the empty Or, an Or of them exactly when a child is the empty
\* And.
EmptyCombinations ==
    (/\ engineCall.op = "parseCondition"
     /\ engineReturned.state = "returned")
    => LET c == engineCall.condition
           value == engineReturned.value
           OnlyEmpty(children) ==
               \A i \in 1..Len(children) : children[i] \in {EmptyAnd, EmptyOr}
       IN  /\ c = EmptyAnd => value = Returned(Bool(TRUE))
           /\ c = EmptyOr => value = Returned(Bool(FALSE))
           /\ c = [not |-> EmptyAnd] => value = Returned(Bool(FALSE))
           /\ c = [not |-> EmptyOr] => value = Returned(Bool(TRUE))
           /\ ("and" \in DOMAIN c /\ OnlyEmpty(c.and))
              => value = Returned(Bool(\A i \in 1..Len(c.and) :
                                           c.and[i] # EmptyOr))
           /\ ("or" \in DOMAIN c /\ OnlyEmpty(c.or))
              => value = Returned(Bool(\E i \in 1..Len(c.or) :
                                           c.or[i] = EmptyAnd))

\* C15 happens: an Or of the empty Or and the empty And, in this order, was
\* evaluated on a transaction and found true.
EmptyOrThenEmptyAnd ==
    /\ engineCall.op = "parseCondition"
    /\ engineCall.condition = [or |-> <<EmptyOr, EmptyAnd>>]
    /\ engineCall.context.fields.amount = Num(15000)
    /\ engineReturned.state = "returned"
    /\ engineReturned.value = Returned(Bool(TRUE))

\* The transaction holds a value on the path: each key is an own property of
\* the value reached so far (a field of an object, the length of a string
\* or of an array)
RECURSIVE Present(_, _, _)
Present(value, path, index) ==
    LET key == path[index]
        own == \/ value.t = "object" /\ "fields" \in DOMAIN value
                  /\ key \in DOMAIN value.fields
               \/ value.t \in {"string", "array"} /\ key = "length"
    IN  /\ own
        /\ index < Len(path)
           => /\ value.t = "object"
              /\ Present(value.fields[key], path, index + 1)

\* C16: a leaf whose field the transaction does not hold, the last key or
\* one before it missing, raises nothing: with is_empty it is true, with
\* equals and a value that is given it is false.
AbsentFieldIsEmpty ==
    (/\ engineCall.op = "parseCondition"
     /\ engineReturned.state = "returned"
     /\ {"field", "operator"} \subseteq DOMAIN engineCall.condition
     /\ Len(engineCall.condition.field) > 0
     /\ ~Present(engineCall.context, engineCall.condition.field, 1))
    => /\ engineCall.condition.operator = "is_empty"
          => engineReturned.value = Returned(Bool(TRUE))
       /\ (/\ engineCall.condition.operator = "equals"
           /\ "value" \in DOMAIN engineCall.condition)
          => engineReturned.value = Returned(Bool(FALSE))

\* C17: evaluating a leaf without a field or without an operator fails with
\* the malformed-condition error, and evaluating a leaf whose operator is
\* not one of the 17 registered operators fails with the
\* unsupported-operator error; neither returns a value.
UnregisteredOperatorFails ==
    (/\ engineCall.op = "parseCondition"
     /\ engineReturned.state = "returned"
     /\ DOMAIN engineCall.condition \cap {"t", "and", "or", "not"} = {})
    => LET c == engineCall.condition
           lacking == \/ "field" \notin DOMAIN c
                      \/ "operator" \notin DOMAIN c
                      \/ c.field = <<>>
                      \/ c.operator = ""
       IN  /\ lacking => engineReturned.value = Thrown(MalformedCondition)
           /\ (~lacking /\ c.operator \notin Operators)
              => engineReturned.value = Thrown(UnsupportedOperator)

\* C18: the score calculateRiskScore returns is a number from 0 to 100, for
\* every configuration of factors and ranges and every transaction.
ScoreWithinBounds ==
    (/\ engineCall.op = "calculateRiskScore"
     /\ engineReturned.state = "returned")
    => /\ engineReturned.value.t = "number"
       /\ "n" \in DOMAIN engineReturned.value
       /\ engineReturned.value.n >= 0
       /\ engineReturned.value.n <= 100

\* The recommendation the precedence gives for a report, by what counts as
\* a flag action of a rule result
Precedence(results, IsFlag(_)) ==
    LET triggered == {i \in 1..Len(results) : ~Falsy(results[i].result)}
        flagging == {i \in triggered :
                        \E k \in 1..Len(results[i].actions) :
                            IsFlag(results[i].actions[k])}
    IN  IF flagging # {} THEN "REVIEW_REQUIRED"
        ELSE IF Cardinality(triggered) > 2 THEN "MONITOR_CLOSELY"
        ELSE IF Cardinality(triggered) >= 1 THEN "NORMAL_MONITORING"
        ELSE "APPROVED"

\* C19 as stated: the recommendation of the summary is REVIEW_REQUIRED if a
\* triggered rule has a flag action; otherwise MONITOR_CLOSELY if more than
\* 2 rules triggered; otherwise NORMAL_MONITORING if at least 1 rule
\* triggered; otherwise APPROVED.
RecommendationByFlagAction ==
    engineReturned.state = "summarised"
    => engineReturned.summary.recommendation
           = Precedence(engineReturned.value.v.results,
                        LAMBDA a : a.type = "flag_transaction")

\* C19: the recommendation of the summary is REVIEW_REQUIRED if a triggered
\* rule has a flag action that succeeded; otherwise MONITOR_CLOSELY if more
\* than 2 rules triggered; otherwise NORMAL_MONITORING if at least 1 rule
\* triggered; otherwise APPROVED.
RecommendationBySuccessfulFlag ==
    engineReturned.state = "summarised"
    => engineReturned.summary.recommendation
           = Precedence(engineReturned.value.v.results,
                        LAMBDA a : a.type = "flag_transaction" /\ a.success)

\* C19 happens: three rules triggered, one of them with a flag action that
\* failed and none with one that succeeded, and the summary recommends
\* MONITOR_CLOSELY.
FailedFlagMonitoredClosely ==
    /\ engineReturned.state = "summarised"
    /\ Len(engineReturned.value.v.results) = 3
    /\ \A i \in 1..3 : ~Falsy(engineReturned.value.v.results[i].result)
    /\ \E i \in 1..3 :
           \E k \in 1..Len(engineReturned.value.v.results[i].actions) :
               LET a == engineReturned.value.v.results[i].actions[k]
               IN  a.type = "flag_transaction" /\ ~a.success
    /\ engineReturned.summary.rulesFlagged = 0
    /\ engineReturned.summary.recommendation = "MONITOR_CLOSELY"

\* C20: with the default rule set, an accepted transaction whose amount is
\* greater than 10000 gets, for the rule high_amount_transaction, a result
\* that is triggered, whose flag_transaction action succeeded with flagged
\* true and whose calculate_score action succeeded with a score from 30 to
\* 90.
HighAmountFlaggedAndScored ==
    (/\ engineCall.op = "processTransaction"
     /\ engineCall.rules = DefaultRules
     /\ engineReturned.state \in {"returned", "summarised"}
     /\ NumLess(Num(10000), engineCall.transactionData.fields.amount))
    => /\ engineReturned.value.ok
       /\ \E i \in 1..Len(engineReturned.value.v.results) :
              LET r == engineReturned.value.v.results[i]
              IN  /\ r.ruleId = "high_amount_transaction"
                  /\ r.result = Bool(TRUE)
                  /\ r.error = Null
                  /\ Len(r.actions) = 2
                  /\ r.actions[1].type = "flag_transaction"
                  /\ r.actions[1].success
                  /\ r.actions[1].result.flagged = TRUE
                  /\ r.actions[2].type = "calculate_score"
                  /\ r.actions[2].success
                  /\ r.actions[2].result.score.t = "number"
                  /\ "n" \in DOMAIN r.actions[2].result.score
                  /\ r.actions[2].result.score.n >= 30
                  /\ r.actions[2].result.score.n <= 90

\* C20 happens: the transaction of amount 15000 from the US was evaluated
\* against the default rule set, flagged and scored 30.
HighAmountScoredThirty ==
    /\ engineCall.op = "processTransaction"
    /\ engineCall.rules = DefaultRules
    /\ engineReturned.state = "returned"
    /\ engineCall.transactionData.fields.amount = Num(15000)
    /\ "location" \in DOMAIN engineCall.transactionData.fields
    /\ engineCall.transactionData.fields.location.fields.country = Str("US")
    /\ engineReturned.value.ok
    /\ engineReturned.value.v.results[1].ruleId = "high_amount_transaction"
    /\ engineReturned.value.v.results[1].result = Bool(TRUE)
    /\ engineReturned.value.v.results[1].actions[1].result.flagged = TRUE
    /\ engineReturned.value.v.results[1].actions[2].result.score = Num(30)

\* The five opposing pairs of operators, either order
OpposingOperators ==
    {{"equals", "not_equals"}, {"greater_than", "less_than_or_equal"},
     {"less_than", "greater_than_or_equal"}, {"contains", "not_contains"},
     {"in", "not_in"}}

\* Two leaves name the same field with opposing operators
Opposed(a, b) ==
    a.field = b.field /\ {a.operator, b.operator} \in OpposingOperators

\* C21: the contradiction detector reports the pairs of leaves of the tree,
\* the earlier leaf first, that name the same field with operators of one
\* of the five opposing pairs, in either order, and no other pair; leaves
\* on different fields are never reported.
ContradictionsAreOpposedLeaves ==
    (/\ engineCall.op = "findContradictoryConditions"
     /\ engineReturned.state = "returned")
    => LET leaves == flattenConditions(engineCall.conditions)
           reported == engineReturned.value
           opposed == {p \in (1..Len(leaves)) \X (1..Len(leaves)) :
                          p[1] < p[2] /\ Opposed(leaves[p[1]], leaves[p[2]])}
       IN  /\ Len(reported) = Cardinality(opposed)
           /\ \A p \in opposed :
                  \E k \in 1..Len(reported) :
                      reported[k] = <<leaves[p[1]], leaves[p[2]]>>
           /\ \A k \in 1..Len(reported) :
                  /\ reported[k][1].field = reported[k][2].field
                  /\ {reported[k][1].operator, reported[k][2].operator}
                         \in OpposingOperators

\* C21 happens: amount greater_than 100 combined with amount
\* less_than_or_equal 100 was analysed and the pair reported.
AmountBoundsReported ==
    /\ engineCall.op = "findContradictoryConditions"
    /\ engineCall.conditions
           = [and |-> <<[field |-> <<"amount">>, operator |-> "greater_than",
                         value |-> Num(100)],
                        [field |-> <<"amount">>,
                         operator |-> "less_than_or_equal",
                         value |-> Num(100)]>>]
    /\ engineReturned.state = "returned"
    /\ Len(engineReturned.value) = 1

\* C22: a validation result of the agent, of a rule execution or of a
\* rule's logic, that holds an issue of severity critical has passed false.
CriticalIssueFails ==
    (/\ engineCall.op \in {"validateRuleExecution", "validateRuleLogic"}
     /\ engineReturned.state = "returned"
     /\ \E i \in 1..Len(engineReturned.value.issues) :
            engineReturned.value.issues[i].severity = "critical")
    => engineReturned.value.passed = FALSE


(* ------------------------------ C23 ------------------------------------- *)

\* how many times t occurs in a queue
Occurrences(queue, t) == Cardinality({i \in 1..Len(queue) : queue[i] = t})

\* a step that drains the inbound queue: no submission, no retry timer
\* firing, and the queue or some transaction's number of pulls changes
IsDrainStep ==
    /\ Len(tx') = Len(tx)
    /\ retryTimers \subseteq retryTimers'
    /\ \/ transactionQueue' # transactionQueue
       \/ \E t \in 1..Len(tx) : tx'[t].attempts # tx[t].attempts

DrainStepTakesHead ==
    LET n == Min(config.batchSize, Len(transactionQueue))
        batch == SubSeq(transactionQueue, 1, n)
    IN  IsDrainStep =>
            /\ n >= 1
            /\ transactionQueue' =
                   SubSeq(transactionQueue, n + 1, Len(transactionQueue))
            /\ \A t \in 1..Len(tx) :
                   tx'[t].attempts = tx[t].attempts + Occurrences(batch, t)
            /\ awaiting' =
                   SelectSeq(batch, LAMBDA t : Occurrences(awaiting', t) > 0)
            /\ processingQueue' = processingQueue \o awaiting'

FirstPullsInSubmissionOrder ==
    \A t1, t2 \in 1..Len(tx) :
        t1 < t2 /\ tx[t2].attempts >= 1 => tx[t1].attempts >= 1

\* C23: every drain step takes exactly min(batchSize, queue length)
\* transactions from the head of the inbound queue, in queue order, pulls
\* exactly those into processing (the ones still in flight after the step
\* are appended to the in-flight set in that order), and leaves the rest of
\* the queue in its order; a transaction is never pulled for the first time
\* before one submitted earlier.
DrainTakesBatchFromHead ==
    [] FirstPullsInSubmissionOrder /\ [][DrainStepTakesHead]_vars

\* C23 witness: with batchSize 1 the first of two waiting transactions has
\* been pulled and the second is still in the queue, not pulled
OnePulledOneLeft ==
    /\ config.batchSize = 1
    /\ Len(tx) >= 2
    /\ tx[1].attempts = 1
    /\ tx[2].attempts = 0
    /\ transactionQueue = <<2>>


(* ------------------------------ C24 ------------------------------------- *)

\* a transaction whose retry timer is pending: status pending, its retry
\* count below the limit, in neither queue once processTransaction's finally
\* block has run
RetryPendingOutsideQueues ==
    \A t \in retryTimers :
        /\ tx[t].status = "pending"
        /\ tx[t].retryCount >= 1
        /\ tx[t].retryCount < config.maxRetries
        /\ Occurrences(transactionQueue, t) = 0
        /\ Occurrences(awaiting, t) = 0 => Occurrences(processingQueue, t) = 0

\* a step in which handleTransactionError ran for t
FailureStep(t) == tx'[t].retryCount = tx[t].retryCount + 1

RetryStep ==
    \A t \in 1..Len(tx) :
        /\ FailureStep(t) /\ Len(tx') = Len(tx) =>
               /\ t \notin retryTimers
               /\ t \in retryTimers' <=>
                      tx'[t].retryCount < config.maxRetries
        /\ t \in retryTimers /\ t \notin retryTimers' =>
               /\ transactionQueue' = <<t>> \o transactionQueue
               /\ tx'[t].status = "pending"
               /\ tx'[t].retryCount = tx[t].retryCount
               /\ tx'[t].attempts = tx[t].attempts
        /\ t \notin retryTimers /\ Len(transactionQueue') > 0
           /\ transactionQueue'[1] = t /\ Len(tx') = Len(tx) =>
               Len(transactionQueue) > 0 /\ Occurrences(transactionQueue, t) > 0

\* C24: a failed transaction whose incremented retryCount is below
\* maxRetries gets a retry timer (and only then); while the timer is pending
\* the transaction has status pending and is in neither the inbound queue nor
\* (once its processing has ended) the in-flight set; when the timer fires
\* the same transaction, still pending, is put at the head of the inbound
\* queue, ahead of every waiting transaction.
RetryReinsertsAtHead ==
    [] RetryPendingOutsideQueues /\ [][RetryStep]_vars

\* C24 witness: transaction 1 failed once and was re-inserted ahead of
\* transaction 2, which has been waiting and was never pulled
RetriedAheadOfWaiting ==
    /\ Len(tx) >= 2
    /\ transactionQueue = <<1, 2>>
    /\ tx[1].requeues = 1
    /\ tx[1].retryCount = 1
    /\ tx[1].status = "pending"
    /\ tx[2].attempts = 0


(* ------------------------------ C25 ------------------------------------- *)

\* the transactions whose failure in this step exhausts their retries
ExhaustedInStep ==
    {t \in 1..Len(tx) :
        FailureStep(t) /\ tx'[t].retryCount >= config.maxRetries}

FailureEventStep ==
    /\ emitted'.transaction_failed =
           emitted.transaction_failed + Cardinality(ExhaustedInStep)
    /\ metrics'.failedTransactions =
           metrics.failedTransactions + Cardinality(ExhaustedInStep)
    /\ \A t \in ExhaustedInStep :
           /\ tx'[t].retryCount = config.maxRetries
           /\ tx'[t].status = "failed"

FailureEventsCountExhausted ==
    /\ \A t \in 1..Len(tx) : tx[t].retryCount <= config.maxRetries
    /\ emitted.transaction_failed =
           Cardinality({t \in 1..Len(tx) :
                           tx[t].retryCount = config.maxRetries})
    /\ metrics.failedTransactions = emitted.transaction_failed

\* C25: a step emits one transaction_failed event and adds one to
\* failedTransactions for each transaction whose failure in that step brings
\* its retryCount to maxRetries, and nothing for a failure that will be
\* retried; the transaction then has retryCount equal to maxRetries, and over
\* a whole run the events and the metric count exactly the transactions that
\* exhausted their retries.
OneFailureEventPerExhausted ==
    [] FailureEventsCountExhausted /\ [][FailureEventStep]_vars

\* C25 witness: with maxRetries 2 a transaction failed, was retried without
\* an event, failed again and its single event was emitted
FailedAfterOneRetry ==
    /\ config.maxRetries = 2
    /\ Len(tx) >= 1
    /\ tx[1].retryCount = 2
    /\ tx[1].requeues = 1
    /\ tx[1].status = "failed"
    /\ emitted.transaction_failed = 1
    /\ metrics.failedTransactions = 1


(* ------------------------------ C26 ------------------------------------- *)

\* the transactions pulled and evaluated without an exception in this
\* step, under the rule set the step leaves active (start() loads the
\* default rules before its first drain; no other step both changes the
\* rules and evaluates)
EvaluatedInStep ==
    {t \in 1..Len(tx) :
        tx'[t].attempts = tx[t].attempts + 1 /\ ~EvaluationThrows(rules')}

\* the i-th request of a run of per-evaluation blocks matches the rule
\* results' errors: rule_execution requests in result order, then performance
MatchesResults(request, i, errors) ==
    LET j == ((i - 1) % (Len(errors) + 1)) + 1
    IN  IF j <= Len(errors)
        THEN /\ request.type = "rule_execution"
             /\ request.priority = IF errors[j] THEN "high" ELSE "normal"
        ELSE /\ request.type = "performance"
             /\ request.priority = "normal"

EvaluationQueuesValidations ==
    LET k == Cardinality(EvaluatedInStep)
        errors == RuleResultErrors(rules')
        added == SubSeq(validationQueue', Len(validationQueue) + 1,
                        Len(validationQueue'))
    IN  Len(tx') = Len(tx) =>
            /\ emitted'.transaction_processed =
                   emitted.transaction_processed + k
            /\ Len(validationQueue') >= Len(validationQueue)
            /\ SubSeq(validationQueue', 1, Len(validationQueue)) =
                   validationQueue
            /\ Len(added) =
                   IF config.aiValidator THEN k * (Len(errors) + 1) ELSE 0
            /\ \A i \in 1..Len(added) : MatchesResults(added[i], i, errors)

\* C26: with a validation agent attached, a step that evaluates k
\* transactions without an exception appends k * (number of rule results + 1)
\* requests to the validation queue, for each evaluation one rule_execution
\* request per rule result in order (priority high when the result has an
\* error, normal otherwise) followed by one performance request, and emits k
\* transaction_processed events.
EachEvaluationQueuesItsValidations == [][EvaluationQueuesValidations]_vars

\* C26 witness: one evaluation under the rule set whose first rule raises
\* queued a high and a normal rule_execution request and the performance
\* request, and its event was emitted
FaultyRuleQueuedHigh ==
    /\ Len(validationQueue) = 3
    /\ validationQueue[1].type = "rule_execution"
    /\ validationQueue[1].priority = "high"
    /\ validationQueue[2].type = "rule_execution"
    /\ validationQueue[2].priority = "normal"
    /\ validationQueue[3].type = "performance"
    /\ emitted.transaction_processed = 1


(* ------------------------------ C27 ------------------------------------- *)

\* the step shows a rules_updated event: the last payload changes
IsReplaceStep == emitted'.rules_updated # emitted.rules_updated

\* the outcome of the evaluation of t that this step makes is the one of
\* the whole rule set r
EvaluatedWith(t, r) ==
    IF EvaluationThrows(r)
    THEN /\ FailureStep(t)
         /\ \A i \in 1..Len(statusLog'[t]) : statusLog'[t][i] # "completed"
    ELSE \E i \in 1..Len(statusLog'[t]) : statusLog'[t][i] = "completed"

ReplaceRulesStep ==
    /\ IsReplaceStep =>
           /\ rules' = emitted'.rules_updated
           /\ UNCHANGED <<transactionQueue, processingQueue, tx, statusLog,
                          validationQueue, retryTimers, awaiting>>
    /\ rules' # rules =>
           \/ emitted'.rules_updated = rules'
           \/ /\ lastLifecycle' = "started" /\ lastLifecycle # "started"
              /\ ~IsReplaceStep
    /\ \A t \in 1..Len(tx) :
           tx'[t].attempts # tx[t].attempts =>
               /\ ~IsReplaceStep
               /\ EvaluatedWith(t, rules')
               /\ config.aiValidator /\ ~EvaluationThrows(rules') =>
                      Len(validationQueue') - Len(validationQueue) =
                          Cardinality(EvaluatedInStep)
                              * (Len(RuleResultErrors(rules')) + 1)

\* C27: a step that emits a rules_updated event leaves the event's rule set
\* as the active one, without touching the queues or a transaction; a step
\* that changes the active set emits the event with the new set, the
\* loading of the default rules by start() excepted; a replace step
\* evaluates nothing; and every evaluation is made, whole, with the set that
\* is active when the transaction is pulled, so every evaluation after a
\* replace has the new set's outcome, for every transaction of the batch.
ReplaceRulesIsAtomic == [][ReplaceRulesStep]_vars

\* C27 witness: a first transaction was evaluated with the default rules,
\* the rules were then replaced by the set whose first rule fails, and a
\* second transaction was evaluated with it, queuing that set's three
\* validation requests after the default set's four
EvaluatedAfterReplace ==
    /\ emitted.rules_updated = "faulty"
    /\ rules = "faulty"
    /\ Len(tx) >= 2
    /\ tx[1].status = "completed"
    /\ tx[2].status = "completed"
    /\ Len(validationQueue) = 7
    /\ validationQueue[4].type = "performance"
    /\ validationQueue[5].priority = "high"


(* ------------------------------ C28 ------------------------------------- *)

\* the step calls processValidationQueue: the callback of a setImmediate, or
\* the start of a cycle of the validation loop
DrainCalled ==
    \/ agentImmediates' < agentImmediates
    \/ agentPc' = "scheduled" /\ agentPc # "scheduled"

\* C28 as stated: a drain that takes requests takes them all, the ones
\* beyond the ceiling included, and leaves the validation queue empty.
EagerDequeue ==
    [][Len(validationQueue') < Len(validationQueue)
           => validationQueue' = <<>>]_vars

ThrottledDequeueStep ==
    LET free == agentConfig.maxConcurrentValidations
                    - Cardinality(activeValidations)
        n == Min(IF free > 0 THEN free ELSE 0, Len(validationQueue))
        taken == SubSeq(validationQueue, 1, n)
    IN  IF DrainCalled
        THEN /\ validationQueue' =
                    SubSeq(validationQueue, n + 1, Len(validationQueue))
             /\ activeValidations' =
                    activeValidations \cup {taken[i].id : i \in 1..n}
             /\ Len(inProgress') = Len(inProgress) + n
             /\ \A i \in 1..n :
                    /\ inProgress'[Len(inProgress) + i].id = taken[i].id
                    /\ inProgress'[Len(inProgress) + i].stage = "validating"
        ELSE Len(validationQueue') >= Len(validationQueue)

\* C28 amended: a drain removes from the head of the validation queue, in
\* order, only as many requests as there are free slots and starts them at
\* once; the requests beyond the ceiling stay in the queue, in their order,
\* until a later drain; nothing else removes a request from the queue.
ThrottledDequeue == [][ThrottledDequeueStep]_vars

\* C28 witness: three requests were queued, a drain started the first two
\* and the third is still in the validation queue while both slots are taken
ThirdRequestStaysQueued ==
    /\ Len(validationQueue) = 1
    /\ agentConfig.maxConcurrentValidations = 2
    /\ activeValidations =
           {validationQueue[1].id - 2, validationQueue[1].id - 1}
    /\ \E i \in 1..Len(inProgress) :
           /\ inProgress[i].id = validationQueue[1].id - 1
           /\ inProgress[i].stage = "validating"


(* ------------------------------ C29 ------------------------------------- *)

\* a call of validateRuleExecution has returned
ExecutionValidated ==
    /\ engineCall.op = "validateRuleExecution"
    /\ engineReturned.state = "returned"

\* the four findings, read off the call's arguments
TookTooLong ==
    engineCall.data.ruleResult.executionTime > engineCall.threshold

ReportedError == engineCall.data.ruleResult.error # Null

ExpectationMissed ==
    /\ "expectedResult" \in DOMAIN engineCall.data
    /\ engineCall.data.expectedResult # engineCall.data.ruleResult.result

SomeActionFailed ==
    /\ "actions" \in DOMAIN engineCall.data.ruleResult
    /\ \E i \in 1..Len(engineCall.data.ruleResult.actions) :
           engineCall.data.ruleResult.actions[i].success = FALSE

\* C29: the score of a rule_execution validation is 100 minus 10 when the
\* execution time exceeds the threshold, minus 50 when the rule result has an
\* error, minus 30 when an expected result is supplied and differs from the
\* result, minus 20 when at least one executed action failed, the deductions
\* adding up; passed is false exactly when the rule result has an error.
ExecutionScoreIsAdditive ==
    ExecutionValidated =>
        /\ engineReturned.value.score =
               100 - (IF TookTooLong THEN 10 ELSE 0)
                   - (IF ReportedError THEN 50 ELSE 0)
                   - (IF ExpectationMissed THEN 30 ELSE 0)
                   - (IF SomeActionFailed THEN 20 ELSE 0)
        /\ engineReturned.value.passed = ~ReportedError

\* C29 witness: a slow rule result with an error, an expected result it
\* misses and a failed action is scored -10 and does not pass
AllFourDeductions ==
    /\ ExecutionValidated
    /\ TookTooLong /\ ReportedError /\ ExpectationMissed /\ SomeActionFailed
    /\ engineReturned.value.score = 0 - 10
    /\ ~engineReturned.value.passed


(* ------------------------------ C30 ------------------------------------- *)

\* the nodes of a condition tree, each with its kind and its nesting depth;
\* a null child is no node
RECURSIVE NodesOf(_, _)
RECURSIVE NodesOfEach(_, _, _)
NodesOfEach(children, index, depth) ==
    IF index > Len(children) THEN <<>>
    ELSE NodesOf(children[index], depth)
             \o NodesOfEach(children, index + 1, depth)

NodesOf(conditions, depth) ==
    IF "t" \in DOMAIN conditions /\ Falsy(conditions) THEN <<>>
    ELSE IF "and" \in DOMAIN conditions
    THEN <<[kind |-> "and", depth |-> depth]>>
             \o NodesOfEach(conditions.and, 1, depth + 1)
    ELSE IF "or" \in DOMAIN conditions
    THEN <<[kind |-> "or", depth |-> depth]>>
             \o NodesOfEach(conditions.or, 1, depth + 1)
    ELSE IF "not" \in DOMAIN conditions
    THEN <<[kind |-> "not", depth |-> depth]>>
             \o NodesOf(conditions.not, depth + 1)
    ELSE <<[kind |-> "leaf", depth |-> depth]>>

\* the sum over the nodes from the index-th: depth + 1 for a leaf, 1 for a
\* not node and 0 for an and/or node, to which perDepth adds the depth of
\* the not or and/or node
RECURSIVE SumOfNodes(_, _, _)
SumOfNodes(nodes, index, perDepth) ==
    IF index > Len(nodes) THEN 0
    ELSE LET node == nodes[index]
             inner == IF perDepth THEN node.depth ELSE 0
         IN  (CASE node.kind = "leaf" -> node.depth + 1
                [] node.kind = "not" -> inner + 1
                [] OTHER -> inner)
             + SumOfNodes(nodes, index + 1, perDepth)

\* a call of calculateConditionComplexity, of validateRuleLogic has returned
ComplexityReturned ==
    /\ engineCall.op = "calculateConditionComplexity"
    /\ engineReturned.state = "returned"

LogicValidated ==
    /\ engineCall.op = "validateRuleLogic"
    /\ engineReturned.state = "returned"

ValidatedConditions ==
    IF "conditions" \in DOMAIN engineCall.data.rule
    THEN engineCall.data.rule.conditions ELSE Null

FlaggedComplex ==
    \E i \in 1..Len(engineReturned.value.issues) :
        engineReturned.value.issues[i].type = "complexity"

\* C30 as stated: the complexity is the sum over the leaves of depth + 1,
\* plus 1 for every not node, and/or nodes adding nothing, and the rule is
\* flagged exactly when that sum exceeds 10.
ComplexityOfLeavesAndNots ==
    /\ ComplexityReturned =>
           engineReturned.value =
               SumOfNodes(NodesOf(engineCall.conditions, 0), 1, FALSE)
    /\ LogicValidated =>
           (FlaggedComplex <=>
                SumOfNodes(NodesOf(ValidatedConditions, 0), 1, FALSE) > 10)

\* C30 amended: the complexity is the sum over the leaves of depth + 1, plus
\* depth + 1 for every not node and depth for every and/or node, for trees
\* of every nesting depth, and the rule is flagged exactly when that sum
\* exceeds 10.
ComplexityOfAllNodes ==
    /\ ComplexityReturned =>
           engineReturned.value =
               SumOfNodes(NodesOf(engineCall.conditions, 0), 1, TRUE)
    /\ LogicValidated =>
           (FlaggedComplex <=>
                SumOfNodes(NodesOf(ValidatedConditions, 0), 1, TRUE) > 10)

\* C30 witness: a rule whose nested tree has complexity 11, of which its
\* leaves and not nodes alone give 10 or less, is flagged
NestedTreeFlaggedAtEleven ==
    /\ LogicValidated
    /\ FlaggedComplex
    /\ SumOfNodes(NodesOf(ValidatedConditions, 0), 1, TRUE) = 11
    /\ SumOfNodes(NodesOf(ValidatedConditions, 0), 1, FALSE) <= 10


(* ------------------------------ C31 ------------------------------------- *)

\* a factor that states its weight and whose ranges state finite points and
\* a finite lower bound
StatedFactor(factor) ==
    /\ "weight" \in DOMAIN factor
    /\ IsFinite(factor.weight)
    /\ "ranges" \in DOMAIN factor
    /\ \A i \in 1..Len(factor.ranges) :
           /\ "points" \in DOMAIN factor.ranges[i]
           /\ IsFinite(factor.ranges[i].points)
           /\ IsFinite(factor.ranges[i].min)
           /\ IsFinite(factor.ranges[i].max) \/ factor.ranges[i].max = Infinity

\* min <= n <= max, for a finite n
Contains(range, n) ==
    /\ range.min.n <= n
    /\ range.max = Infinity \/ n <= range.max.n

\* points * weight of the first range of the factor that contains n, 0 when
\* none does, by the weight given
WeightedPoints(factor, n, weight) ==
    LET matching == {i \in 1..Len(factor.ranges) :
                        Contains(factor.ranges[i], n)}
    IN  IF matching = {} THEN 0
        ELSE LET first == CHOOSE i \in matching : \A j \in matching : i <= j
             IN  factor.ranges[first].points.n * weight

RECURSIVE WeightedSum(_, _, _)
WeightedSum(factors, index, n) ==
    IF index > Len(factors) THEN 0
    ELSE WeightedPoints(factors[index], n, factors[index].weight.n)
             + WeightedSum(factors, index + 1, n)

ClampToScore(n) == IF n < 0 THEN 0 ELSE IF n > 100 THEN 100 ELSE n

\* a calculateRiskScore call has returned, on factors that state their
\* weights and points
StatedScoreReturned ==
    /\ engineCall.op = "calculateRiskScore"
    /\ engineReturned.state = "returned"
    /\ "factors" \in DOMAIN engineCall.config
    /\ \A i \in 1..Len(engineCall.config.factors) :
           StatedFactor(engineCall.config.factors[i])

\* C31: the score is the clamp to [0,100] of the sum over the configured
\* factors of points * weight of the first range, in configuration order,
\* whose inclusive bounds contain the factor's field value, a factor without
\* a matching range adding 0; for every configured weight, weight 0
\* included, and for a value on the bound two adjacent ranges share.
ScoreIsClampedWeightedSum ==
    StatedScoreReturned
    => engineReturned.value =
           Num(ClampToScore(WeightedSum(
                   engineCall.config.factors, 1,
                   engineCall.transactionData.fields.amount.n)))


(* ------------------------------ C32 ------------------------------------- *)

\* The number and the sum of the scores of the successful calculate_score
\* action results of the triggered rule results, from the k-th action of the
\* i-th result on, a score that is not a number counting as 0
RECURSIVE ScoreTotal(_, _, _)
ScoreTotal(results, i, k) ==
    IF i > Len(results) THEN [count |-> 0, sum |-> 0, nan |-> FALSE]
    ELSE IF Falsy(results[i].result) \/ k > Len(results[i].actions)
    THEN ScoreTotal(results, i + 1, 1)
    ELSE LET a == results[i].actions[k]
             rest == ScoreTotal(results, i, k + 1)
         IN  IF a.type = "calculate_score" /\ a.success
             THEN [count |-> rest.count + 1,
                   sum |-> rest.sum + (IF IsFinite(a.result.score)
                                       THEN a.result.score.n ELSE 0),
                   nan |-> rest.nan \/ ~IsFinite(a.result.score)]
             ELSE rest

SummaryScores == ScoreTotal(engineReturned.value.v.results, 1, 1)

\* C32 as stated: the risk score of the summary is the arithmetic mean of
\* the scores of the successful calculate_score action results of the
\* triggered rules, 0 when there is none, and lies in [0,100].
RiskScoreIsTheMean ==
    engineReturned.state = "summarised"
    => LET total == SummaryScores
           riskScore == engineReturned.summary.riskScore
       IN  /\ total.count = 0 => riskScore = Num(0)
           /\ (total.count > 0 /\ ~total.nan) =>
                  /\ IsFinite(riskScore)
                  /\ riskScore.n * total.count = total.sum
           /\ (total.count > 0 /\ total.nan) => IsNaN(riskScore)
           /\ IsFinite(riskScore) => riskScore.n >= 0 /\ riskScore.n <= 100

\* C32: the risk score of the summary is the arithmetic mean, rounded to the
\* nearest integer (a half upwards), of the scores of the successful
\* calculate_score action results of the triggered rules, a score that is
\* not a number counting as 0; it is 0 when there is no such result, and it
\* is an integer of [0,100].
RiskScoreIsTheRoundedMean ==
    engineReturned.state = "summarised"
    => LET total == SummaryScores
           riskScore == engineReturned.summary.riskScore
       IN  /\ IsFinite(riskScore)
           /\ riskScore.n >= 0 /\ riskScore.n <= 100
           /\ total.count = 0 => riskScore.n = 0
           /\ total.count > 0 =>
                  /\ 2 * total.sum - total.count
                         < 2 * total.count * riskScore.n
                  /\ 2 * total.count * riskScore.n
                         <= 2 * total.sum + total.count

\* C32 happens: the scores 45 and 100 of two triggered rules, next to a
\* calculate_score action that failed, are summarised as 73
MeanRoundedUp ==
    /\ engineReturned.state = "summarised"
    /\ SummaryScores = [count |-> 2, sum |-> 145, nan |-> FALSE]
    /\ engineReturned.summary.riskScore = Num(73)


(* ------------------------------ C33 ------------------------------------- *)

\* null, undefined, the empty string or an empty sequence
EmptyValue(v) ==
    \/ v.t \in {"null", "undefined"}
    \/ v = Str("")
    \/ v = Arr(<<>>)

\* a parseCondition call on a leaf of the operator has returned
EmptinessLeafReturned(operator) ==
    /\ engineCall.op = "parseCondition"
    /\ engineReturned.state = "returned"
    /\ DOMAIN engineCall.condition \cap {"t", "and", "or", "not"} = {}
    /\ "field" \in DOMAIN engineCall.condition
    /\ "operator" \in DOMAIN engineCall.condition
    /\ engineCall.condition.field # <<>>
    /\ engineCall.condition.operator = operator

\* C33: is_empty is true exactly when the field value is null, undefined,
\* the empty string or an empty sequence, and false for every other value,
\* the number 0 and the boolean false included; is_not_empty is its
\* negation on every value.
EmptyExactlyWhenNothing ==
    LET fieldValue == getFieldValue(engineCall.condition.field,
                                    engineCall.context)
    IN  /\ EmptinessLeafReturned("is_empty")
           => engineReturned.value = Returned(Bool(EmptyValue(fieldValue)))
        /\ EmptinessLeafReturned("is_not_empty")
           => engineReturned.value = Returned(Bool(~EmptyValue(fieldValue)))


(* ------------------------------ C34 ------------------------------------- *)

\* a parseCondition call on a combination of the key has returned
CombinationReturned(key) ==
    /\ engineCall.op = "parseCondition"
    /\ engineReturned.state = "returned"
    /\ "t" \notin DOMAIN engineCall.condition
    /\ key \in DOMAIN engineCall.condition
    /\ key = "or" => "and" \notin DOMAIN engineCall.condition

\* What the combination returns when its children are evaluated in order up
\* to the first that raises or that has the deciding value: the error of
\* that child, the deciding value, or its negation when no child stops it
LeftToRight(children, context, deciding) ==
    LET outcome == [i \in 1..Len(children) |->
                       parseCondition(children[i], context)]
        stops == {i \in 1..Len(children) :
                     \/ ~outcome[i].ok
                     \/ ~Falsy(outcome[i].v) = deciding}
    IN  IF stops = {} THEN Returned(Bool(~deciding))
        ELSE LET first == CHOOSE i \in stops : \A j \in stops : i <= j
             IN  IF outcome[first].ok THEN Returned(Bool(deciding))
                 ELSE outcome[first]

\* C34: and evaluates its children left to right and stops at the first
\* that is false, or at the first that is true; the children after the
\* deciding one are not evaluated, so a malformed child or one of an
\* unsupported operator raises its error when it stands before the deciding
\* child and none when it stands after it.
CombinationsShortCircuit ==
    /\ CombinationReturned("and")
       => engineReturned.value =
              LeftToRight(engineCall.condition.and, engineCall.context, FALSE)
    /\ CombinationReturned("or")
       => engineReturned.value =
              LeftToRight(engineCall.condition.or, engineCall.context, TRUE)

\* C34 happens: an and whose first child is false and whose second child
\* lacks its operator has returned false
MalformedAfterDecidingChild ==
    /\ CombinationReturned("and")
    /\ engineCall.condition.and =
           <<[field |-> <<"status">>, operator |-> "is_empty"],
             [field |-> <<"amount">>, value |-> Num(20)]>>
    /\ engineReturned.value = Returned(Bool(FALSE))


(* ------------------------------ C35 ------------------------------------- *)

\* a processTransaction call of the rule processor has returned its report
ReportReturned ==
    /\ engineCall.op = "processTransaction"
    /\ engineReturned.state = "returned"
    /\ engineReturned.value.ok

\* C35: in the report of processTransaction the total is the number of
\* enabled rules evaluated, the triggered count the number of rule results
\* that triggered, and the failed count the number of rule results that
\* carry an error, not the number of rules that did not trigger.
FailedCountsErrors ==
    ReportReturned
    => LET report == engineReturned.value.v
           evaluated == {i \in 1..Len(engineCall.rules) :
                            Enabled(engineCall.rules[i])}
       IN  /\ report.totalRules = Cardinality(evaluated)
           /\ Len(report.results) = report.totalRules
           /\ report.passedRules =
                  Cardinality({i \in 1..Len(report.results) :
                                  report.results[i].result = Bool(TRUE)})
           /\ report.failedRules =
                  Cardinality({i \in 1..Len(report.results) :
                                  report.results[i].error # Null})


(* ------------------------------ C36 ------------------------------------- *)

\* the number of entries of the transaction history that are results of t
HistoryEntries(t) ==
    Cardinality({i \in 1..Len(transactionHistory) :
                    transactionHistory[i].transactionId = t})

\* C36: each accepted transaction is appended to the transaction history,
\* counted in processedTransactions and announced by transaction_processed
\* at most once, and a transaction that was marked completed is never handed
\* to the retry path, also when the emit of transaction_processed raises.
ProcessedAtMostOnce ==
    /\ \A t \in 1..Len(tx) :
           /\ HistoryEntries(t) <= 1
           /\ \A i \in 1..Len(statusLog[t]) :
                  statusLog[t][i] = "completed" => i = Len(statusLog[t])
    /\ metrics.processedTransactions <= Len(tx)
    /\ emitted.transaction_processed <= Len(tx)


(* ------------------------------ C37 ------------------------------------- *)

\* t was accepted and is completed, or failed with its retries used up
Settled(t) ==
    /\ Len(tx) >= t
    /\ \/ tx[t].status = "completed"
       \/ tx[t].status = "failed" /\ tx[t].retryCount >= config.maxRetries

\* C37: with auto-processing, and the drain loop and the retry timers served
\* fairly, every accepted transaction is eventually completed or failed for
\* good, unless the pipeline is stopped meanwhile: none stays pending or in
\* flight for ever while the pipeline is started.
EveryTransactionSettles ==
    \A t \in 1..MaxTx :
        [](  (config.autoProcessTransactions /\ isProcessing /\ Len(tx) >= t)
             => <>(~isProcessing \/ Settled(t)))

\* C37 happens: on a started pipeline with auto-processing a transaction
\* failed for good after a retry and another one completed
SettledAfterRetry ==
    /\ config.autoProcessTransactions
    /\ isProcessing
    /\ Len(tx) = 2
    /\ tx[1].status = "failed"
    /\ tx[1].retryCount = config.maxRetries
    /\ tx[1].requeues >= 1
    /\ tx[2].status = "completed"
    /\ transactionQueue = <<>>
    /\ processingQueue = <<>>


(* ------------------------------ C38 ------------------------------------- *)

\* stop() is called on a running monitor and returns within the step: no
\* transaction is accepted between the call and the return
StopCalledAndReturned ==
    /\ isProcessing
    /\ ~isProcessing'
    /\ lastLifecycle' = "stopped"

\* C38: when stop() returns, every transaction accepted before the call is
\* completed or failed for good; none is pending in the queue, in flight,
\* or waiting on a retry timer that would put it back into the inbound
\* queue after the shutdown.
StopLeavesNothingPending ==
    [][StopCalledAndReturned
       => /\ retryTimers' = {}
          /\ transactionQueue' = <<>>
          /\ processingQueue' = <<>>
          /\ \A t \in 1..Len(tx) :
                 \/ tx'[t].status = "completed"
                 \/ /\ tx'[t].status = "failed"
                    /\ tx'[t].retryCount >= config.maxRetries]_vars


(* ------------------------------ C39 ------------------------------------- *)

\* C39: between the steps of the event loop the transactions are conserved:
\* totalTransactions = processedTransactions + failedTransactions + the
\* length of the inbound queue + the size of the in-flight set + the number
\* of transactions waiting on a retry timer; so processedTransactions +
\* failedTransactions never exceeds totalTransactions.
TransactionsConserved ==
    Idle
    => /\ metrics.totalTransactions =
              metrics.processedTransactions + metrics.failedTransactions
                  + Len(transactionQueue) + Len(processingQueue)
                  + Cardinality(retryTimers)
       /\ metrics.processedTransactions + metrics.failedTransactions
              <= metrics.totalTransactions


(* ------------------------------ C40 ------------------------------------- *)

\* the drain loops that are alive: the armed processLoop timers, and the
\* processLoop that is in its cycle
LiveDrainLoops == loopTimers + (IF pc = "loop" THEN 1 ELSE 0)

\* C40: the pipeline has at most one live drain loop at any time, after any
\* sequence of start() and stop() calls, a start() that follows a stop()
\* before the timer scheduled earlier has fired included.
AtMostOneDrainLoop == LiveDrainLoops <= 1

====
